---- MODULE Spec2Model ----
(***************************************************************************)
(* Priory SmartShift: the shift rules (services/shiftRules.js), the        *)
(* scoring of staff for a shift (services/shiftAutomation.js) and the      *)
(* manager's assign operation (routes/authRoutes.js), the staff            *)
(* recommendations for a shift (routes/managerAssignmentRoutes.js), the    *)
(* WhatsApp webhook (routes/whatsappRoutes.js) and the manager's cancel    *)
(* of an offer (routes/authRoutes.js).                                     *)
(*                                                                         *)
(* Representation.                                                         *)
(*   - A nullable JavaScript value is a sequence of length <= 1: <<>> is   *)
(*     null/undefined, <<v>> is the value v.                               *)
(*   - A calendar date is the number of the day (0, 1, 2, ...); a          *)
(*     time-of-day string "HH:MM" is the pair <<HH, MM>>, the string       *)
(*     without a colon "HH" is <<HH>>, a missing one is <<>>.              *)
(*   - An instant (a JavaScript Date) is the number of minutes since       *)
(*     00:00 of day 0, in the server's time zone; durations are minutes    *)
(*     (the code's hours, times 60), so that 12.5 h is the integer 750.    *)
(***************************************************************************)
EXTENDS Integers, Sequences, FiniteSets, Bags, TLC

VARIABLES
    assignments,          \* argument: the staff member's existing commitments (array)
    newShift,             \* argument: the candidate shift
    options,              \* argument: the policy values, each nullable (default applies)
    trainingStatus,       \* argument: nullable {isCompliant, overdueCourses}
    allowManagerOverride, \* argument
    staff,                \* argument of scoring: the staff row
    weeklyHoursMap,       \* argument of scoring: staff id -> minutes assigned this week
    weeklyDaysMap,        \* argument of scoring: staff id -> days worked this week
    ret,                  \* the last call of a pure function and what it returned
    shifts,               \* table shifts: shift id -> row
    staffTable,           \* table staff: the ids of its rows
    staffRows,            \* table staff: its rows, in the order a SELECT returns them
    shift_assignments,    \* table shift_assignments: a bag of [shift_id, staff_id]
    requests,             \* assign requests that passed the rules and await their transaction
    response,             \* the last HTTP response sent, with the request it answers
    shift_offers,         \* table shift_offers: offer id -> row, ids in the order of created_at
    attendance_logs,      \* table attendance_logs: the rows in the order of occurred_at
    registrationSessions, \* the Map registrationSessions: phone -> session
    handlers              \* handlers suspended at an await, each with what it has read

\* the state of the WhatsApp webhook and of the offers
whatsappVars == <<shift_offers, attendance_logs, registrationSessions, handlers>>

vars == <<assignments, newShift, options, trainingStatus, allowManagerOverride,
          staff, weeklyHoursMap, weeklyDaysMap, ret,
          shifts, staffTable, staffRows, shift_assignments, requests, response,
          whatsappVars>>

----------------------------------------------------------------------------
(* Time                                                                    *)

DayLen == 24 * 60

\* Date.prototype.getDate / getHours / the date part of an instant
getDate(t) == t \div DayLen
getHours(t) == (t % DayLen) \div 60

\* toDateTime(dateStr, timeStr): null for a missing date; the date's own
\* instant when the time is missing or has no colon; else the date with its
\* hours and minutes replaced.
toDateTime(dateStr, timeStr) ==
    IF dateStr = <<>> THEN <<>>
    ELSE LET base == dateStr[1] * DayLen IN
         IF Len(timeStr) < 2 THEN <<base>>
         ELSE <<getDate(base) * DayLen + timeStr[1] * 60 + timeStr[2]>>

getShiftRange_EndBeforeOnly(shift) ==
    LET start == toDateTime(shift.shift_date, shift.start_time)
        endRaw == toDateTime(shift.shift_date, shift.end_time)
    IN  IF start = <<>> \/ endRaw = <<>>
        THEN [start |-> <<>>, end |-> <<>>]
        ELSE [start |-> start,
              end |-> IF endRaw[1] < start[1] THEN <<endRaw[1] + DayLen>> ELSE endRaw]

getShiftRange(shift) ==
    LET start == toDateTime(shift.shift_date, shift.start_time)
        endRaw == toDateTime(shift.shift_date, shift.end_time)
    IN  IF start = <<>> \/ endRaw = <<>>
        THEN [start |-> <<>>, end |-> <<>>]
        ELSE [start |-> start,
              end |-> IF endRaw[1] <= start[1] THEN <<endRaw[1] + DayLen>> ELSE endRaw]

\* in minutes
getShiftDurationHours(shift) ==
    LET r == getShiftRange(shift) IN
    IF r.start = <<>> \/ r.end = <<>> THEN 0
    ELSE IF r.end[1] <= r.start[1] THEN 0
    ELSE r.end[1] - r.start[1]

isNightShift(shift) ==
    LET r == getShiftRange(shift) IN
    IF r.start = <<>> \/ r.end = <<>> THEN FALSE
    ELSE IF getDate(r.end[1]) # getDate(r.start[1]) THEN TRUE
    ELSE IF getHours(r.start[1]) < 6 THEN TRUE
    ELSE IF getHours(r.start[1]) >= 20 THEN TRUE
    ELSE FALSE

getShiftType_EndBefore22(shift) ==
    IF isNightShift(shift) THEN "night"
    ELSE LET r == getShiftRange(shift) IN
         IF r.start = <<>> \/ r.end = <<>> THEN "unknown"
         ELSE IF getHours(r.start[1]) >= 6 /\ getHours(r.end[1]) < 22 THEN "day"
         ELSE "unknown"

getShiftType(shift) ==
    IF isNightShift(shift) THEN "night"
    ELSE LET r == getShiftRange(shift) IN
         IF r.start = <<>> \/ r.end = <<>> THEN "unknown"
         ELSE IF getHours(r.start[1]) >= 6 /\ getHours(r.end[1]) <= 22 THEN "day"
         ELSE "unknown"

----------------------------------------------------------------------------
(* Rules (services/shiftRules.js)                                          *)

\* a ?? b, and a defaulted parameter
orDefault(v, d) == IF v = <<>> THEN d ELSE v[1]

\* Number.prototype.toFixed(1) of a number of hours given in minutes: tenths of an hour
toFixed1(minutes) == (minutes * 10 + 30) \div 60

\* the overlap test on closed intervals: touching shifts overlap
shiftsOverlap_Closed(shiftA, shiftB) ==
    LET rangeA == getShiftRange(shiftA)
        rangeB == getShiftRange(shiftB)
    IN  IF rangeA.start = <<>> \/ rangeA.end = <<>> \/ rangeB.start = <<>> \/ rangeB.end = <<>>
        THEN FALSE
        ELSE rangeA.start[1] <= rangeB.end[1] /\ rangeB.start[1] <= rangeA.end[1]

\* the overlap test that looks at one side only
shiftsOverlap_OneSided(shiftA, shiftB) ==
    LET rangeA == getShiftRange(shiftA)
        rangeB == getShiftRange(shiftB)
    IN  IF rangeA.start = <<>> \/ rangeA.end = <<>> \/ rangeB.start = <<>> \/ rangeB.end = <<>>
        THEN FALSE
        ELSE IF rangeA.end[1] <= rangeA.start[1] \/ rangeB.end[1] <= rangeB.start[1]
        THEN FALSE
        ELSE rangeA.start[1] < rangeB.end[1]

shiftsOverlap(shiftA, shiftB) ==
    LET rangeA == getShiftRange(shiftA)
        rangeB == getShiftRange(shiftB)
    IN  IF rangeA.start = <<>> \/ rangeA.end = <<>> \/ rangeB.start = <<>> \/ rangeB.end = <<>>
        THEN FALSE
        ELSE IF rangeA.end[1] <= rangeA.start[1] \/ rangeB.end[1] <= rangeB.start[1]
        THEN FALSE
        ELSE rangeA.start[1] < rangeB.end[1] /\ rangeB.start[1] < rangeA.end[1]

\* in minutes; windowStart and windowEnd are instants
RECURSIVE calculateTotalHoursInWindow(_, _, _)
calculateTotalHoursInWindow(list, windowStart, windowEnd) ==
    IF list = <<>> THEN 0
    ELSE LET a == Head(list)
             start == getShiftRange(a).start
             hours == IF start = <<>> THEN 0
                      ELSE IF start[1] >= windowStart /\ start[1] <= windowEnd
                           THEN getShiftDurationHours(a)
                           ELSE 0
         IN  hours + calculateTotalHoursInWindow(Tail(list), windowStart, windowEnd)

\* the hard cap inclusive: a total equal to the cap is rejected
checkWeeklyHoursLimit_CapInclusive(list, shift, opts) ==
    LET softThreshold == orDefault(opts.softThresholdHours, 48)
        hardCap == orDefault(opts.hardCapHours, 72)
        newStart == getShiftRange(shift).start
    IN  IF newStart = <<>>
        THEN [ok |-> TRUE, totalHoursWithNew |-> 0, legalWarning |-> FALSE,
              breachedHardCap |-> FALSE, reason |-> ""]
        ELSE LET total == calculateTotalHoursInWindow(list, newStart[1] - 6 * DayLen,
                                                      newStart[1])
                              + getShiftDurationHours(shift)
             IN  [ok |-> ~(total >= hardCap * 60), totalHoursWithNew |-> total,
                  legalWarning |-> (total > softThreshold * 60 /\ total < hardCap * 60),
                  breachedHardCap |-> (total >= hardCap * 60), reason |-> ""]

\* the thresholds read from the policy the call before left behind, not from
\* the call's own options
checkWeeklyHoursLimit_AmbientPolicy(list, shift, opts) ==
    LET softThreshold == orDefault(options.softThresholdHours, 48)
        hardCap == orDefault(options.hardCapHours, 72)
        newStart == getShiftRange(shift).start
    IN  IF newStart = <<>>
        THEN [ok |-> TRUE, totalHoursWithNew |-> 0, legalWarning |-> FALSE,
              breachedHardCap |-> FALSE, reason |-> "no valid start; skipping weekly hours check"]
        ELSE LET total == calculateTotalHoursInWindow(list, newStart[1] - 6 * DayLen,
                                                      newStart[1])
                              + getShiftDurationHours(shift)
             IN  IF total > hardCap * 60
                 THEN [ok |-> FALSE, totalHoursWithNew |-> total, legalWarning |-> FALSE,
                       breachedHardCap |-> TRUE, reason |-> "Weekly hours hard cap exceeded"]
                 ELSE [ok |-> TRUE, totalHoursWithNew |-> total,
                       legalWarning |-> (total > softThreshold * 60),
                       breachedHardCap |-> FALSE, reason |-> ""]

\* opts: [softThresholdHours, hardCapHours], each nullable
checkWeeklyHoursLimit(list, shift, opts) ==
    LET softThreshold == orDefault(opts.softThresholdHours, 48)
        hardCap == orDefault(opts.hardCapHours, 72)
        newStart == getShiftRange(shift).start
    IN  IF newStart = <<>>
        THEN [ok |-> TRUE, totalHoursWithNew |-> 0, legalWarning |-> FALSE,
              breachedHardCap |-> FALSE, reason |-> "no valid start; skipping weekly hours check"]
        ELSE LET windowEnd == newStart[1]
                 windowStart == newStart[1] - 6 * DayLen
                 existingHours == calculateTotalHoursInWindow(list, windowStart, windowEnd)
                 newHours == getShiftDurationHours(shift)
                 total == existingHours + newHours
             IN  IF total > hardCap * 60
                 THEN [ok |-> FALSE, totalHoursWithNew |-> total, legalWarning |-> FALSE,
                       breachedHardCap |-> TRUE, reason |-> "Weekly hours hard cap exceeded"]
                 ELSE [ok |-> TRUE, totalHoursWithNew |-> total,
                       legalWarning |-> (total > softThreshold * 60),
                       breachedHardCap |-> FALSE, reason |-> ""]

\* the night limit without counting the candidate shift itself
checkNightShiftLimit_NoPlusOne(list, shift, maxNightsArg, windowDaysArg) ==
    LET maxNights == orDefault(maxNightsArg, 4)
        windowDays == orDefault(windowDaysArg, 14)
        newStart == getShiftRange(shift).start
    IN  IF newStart = <<>> \/ ~isNightShift(shift)
        THEN [ok |-> TRUE, totalNightsWithNew |-> 0, reason |-> ""]
        ELSE LET counted(a) == LET start == getShiftRange(a).start IN
                               /\ start # <<>>
                               /\ start[1] >= newStart[1] - (windowDays - 1) * DayLen
                               /\ start[1] <= newStart[1]
                               /\ isNightShift(a)
                 nightCount == Cardinality({i \in 1..Len(list) : counted(list[i])})
             IN  [ok |-> ~(nightCount > maxNights), totalNightsWithNew |-> nightCount,
                  reason |-> ""]

\* maxNights and windowDays are nullable (defaults 4 and 14)
checkNightShiftLimit(list, shift, maxNightsArg, windowDaysArg) ==
    LET maxNights == orDefault(maxNightsArg, 4)
        windowDays == orDefault(windowDaysArg, 14)
        newStart == getShiftRange(shift).start
    IN  IF newStart = <<>>
        THEN [ok |-> TRUE, totalNightsWithNew |-> 0,
              reason |-> "no valid start; skipping night shift check"]
        ELSE IF ~isNightShift(shift)
        THEN [ok |-> TRUE, totalNightsWithNew |-> 0, reason |-> ""]
        ELSE LET windowEnd == newStart[1]
                 windowStart == newStart[1] - (windowDays - 1) * DayLen
                 counted(a) == LET start == getShiftRange(a).start IN
                               /\ start # <<>>
                               /\ start[1] >= windowStart
                               /\ start[1] <= windowEnd
                               /\ isNightShift(a)
                 nightCount == Cardinality({i \in 1..Len(list) : counted(list[i])})
                 totalWithNew == nightCount + 1
             IN  IF totalWithNew > maxNights
                 THEN [ok |-> FALSE, totalNightsWithNew |-> totalWithNew,
                       reason |-> "Night shift limit exceeded"]
                 ELSE [ok |-> TRUE, totalNightsWithNew |-> totalWithNew, reason |-> ""]

checkDoubleBooking(list, shift) ==
    LET hits == {i \in 1..Len(list) : shiftsOverlap(list[i], shift)} IN
    IF hits # {}
    THEN LET first == CHOOSE i \in hits : \A j \in hits : i <= j IN
         [ok |-> FALSE, conflictingShift |-> <<list[first]>>,
          reason |-> "New shift overlaps with an existing assignment"]
    ELSE [ok |-> TRUE, conflictingShift |-> <<>>, reason |-> ""]

\* the rest check with a gap of exactly the minimum rejected
checkRestPeriod_GapInclusive(list, shift, minRestHoursArg) ==
    LET minRestHours == orDefault(minRestHoursArg, 11)
        newStart == getShiftRange(shift).start
        short(a) == LET r == getShiftRange(a) IN
                    /\ r.start # <<>>
                    /\ r.end # <<>>
                    /\ newStart[1] - r.end[1] > 0
                    /\ newStart[1] - r.end[1] <= minRestHours * 60
    IN  [ok |-> (newStart = <<>> \/ \A i \in 1..Len(list) : ~short(list[i])),
         reason |-> "", cites |-> <<>>, previousShift |-> <<>>]

\* the rest check that also counts a commitment ending after the new start
checkRestPeriod_BackwardGaps(list, shift, minRestHoursArg) ==
    LET minRestHours == orDefault(minRestHoursArg, 11)
        newStart == getShiftRange(shift).start
        NoRest == [gap |-> 0, minRestHours |-> minRestHours,
                   prevType |-> "", newType |-> ""]
    IN  IF newStart = <<>>
        THEN [ok |-> TRUE, reason |-> "no valid start; skipping rest-period check",
              cites |-> NoRest, previousShift |-> <<>>]
        ELSE LET gapHours(a) == newStart[1] - getShiftRange(a).end[1]
                 short(a) == LET r == getShiftRange(a) IN
                             /\ r.start # <<>>
                             /\ r.end # <<>>
                             /\ r.end[1] > r.start[1]
                             /\ gapHours(a) < minRestHours * 60
                 hits == {i \in 1..Len(list) : short(list[i])}
             IN  IF hits # {}
                 THEN LET first == CHOOSE i \in hits : \A j \in hits : i <= j IN
                      [ok |-> FALSE, reason |-> "Insufficient rest between shifts",
                       cites |-> [gap |-> toFixed1(gapHours(list[first])),
                                  minRestHours |-> minRestHours,
                                  prevType |-> getShiftType(list[first]),
                                  newType |-> getShiftType(shift)],
                       previousShift |-> <<list[first]>>]
                 ELSE [ok |-> TRUE, reason |-> "", cites |-> NoRest, previousShift |-> <<>>]

\* minRestHoursArg is nullable (default 11)
checkRestPeriod(list, shift, minRestHoursArg) ==
    LET minRestHours == orDefault(minRestHoursArg, 11)
        newStart == getShiftRange(shift).start
        NoRest == [gap |-> 0, minRestHours |-> minRestHours,
                   prevType |-> "", newType |-> ""]
    IN  IF newStart = <<>>
        THEN [ok |-> TRUE, reason |-> "no valid start; skipping rest-period check",
              cites |-> NoRest, previousShift |-> <<>>]
        ELSE LET gapHours(a) == newStart[1] - getShiftRange(a).end[1]
                 short(a) == LET r == getShiftRange(a) IN
                             /\ r.start # <<>>
                             /\ r.end # <<>>
                             /\ r.end[1] > r.start[1]
                             /\ gapHours(a) > 0
                             /\ gapHours(a) < minRestHours * 60
                 hits == {i \in 1..Len(list) : short(list[i])}
             IN  IF hits # {}
                 THEN LET first == CHOOSE i \in hits : \A j \in hits : i <= j IN
                      [ok |-> FALSE, reason |-> "Insufficient rest between shifts",
                       cites |-> [gap |-> toFixed1(gapHours(list[first])),
                                  minRestHours |-> minRestHours,
                                  prevType |-> getShiftType(list[first]),
                                  newType |-> getShiftType(shift)],
                       previousShift |-> <<list[first]>>]
                 ELSE [ok |-> TRUE, reason |-> "", cites |-> NoRest, previousShift |-> <<>>]

\* the YYYY-MM-DD key of an instant's calendar date: the number of its day
toDateKey(t) == t \div DayLen

\* the while loop: the number of consecutive dates in workedDays, from cursor backward
RECURSIVE streakFrom(_, _)
streakFrom(workedDays, cursor) ==
    IF toDateKey(cursor) \in workedDays
    THEN 1 + streakFrom(workedDays, cursor - DayLen)
    ELSE 0

\* the limit reached one day early: a streak equal to maxDays is rejected
checkConsecutiveDaysLimit_AtLeast(list, shift, maxDaysArg) ==
    LET maxDays == orDefault(maxDaysArg, 6)
        newStart == getShiftRange(shift).start
    IN  IF newStart = <<>>
        THEN [ok |-> TRUE, streak |-> 0, reason |-> ""]
        ELSE LET starts == {getShiftRange(list[i]).start : i \in 1..Len(list)}
                 workedDays == {toDateKey(s[1]) : s \in starts \ {<<>>}}
                                  \cup {toDateKey(newStart[1])}
                 streak == streakFrom(workedDays, newStart[1])
             IN  [ok |-> ~(streak >= maxDays), streak |-> streak, reason |-> ""]

\* maxDaysArg is nullable (default 6)
checkConsecutiveDaysLimit(list, shift, maxDaysArg) ==
    LET maxDays == orDefault(maxDaysArg, 6)
        newStart == getShiftRange(shift).start
    IN  IF newStart = <<>>
        THEN [ok |-> TRUE, streak |-> 0,
              reason |-> "no valid start; skipping consecutive-days check"]
        ELSE LET starts == {getShiftRange(list[i]).start : i \in 1..Len(list)}
                 workedDays == {toDateKey(s[1]) : s \in starts \ {<<>>}}
                                  \cup {toDateKey(newStart[1])}
                 streak == streakFrom(workedDays, newStart[1])
             IN  IF streak > maxDays
                 THEN [ok |-> FALSE, streak |-> streak,
                       reason |-> "Consecutive days limit exceeded"]
                 ELSE [ok |-> TRUE, streak |-> streak, reason |-> ""]

\* the gate with the unknown status denied instead of allowed
checkMandatoryTraining_DenyUnknown(status, allowOverride) ==
    IF status = <<>>
    THEN [ok |-> FALSE, reason |-> "No training data available", overdueCourses |-> {}]
    ELSE IF status[1].isCompliant
    THEN [ok |-> TRUE, reason |-> "", overdueCourses |-> {}]
    ELSE [ok |-> allowOverride, reason |-> "Mandatory training overdue",
          overdueCourses |-> status[1].overdueCourses]

\* status is nullable: <<>> or <<[isCompliant, overdueCourses]>>
checkMandatoryTraining(status, allowOverride) ==
    IF status = <<>>
    THEN [ok |-> TRUE, reason |-> "No training data available; defaulting to allow",
          overdueCourses |-> {}]
    ELSE IF status[1].isCompliant
    THEN [ok |-> TRUE, reason |-> "", overdueCourses |-> {}]
    ELSE IF allowOverride
    THEN [ok |-> TRUE,
          reason |-> "Mandatory training overdue but manager override is allowed",
          overdueCourses |-> status[1].overdueCourses]
    ELSE [ok |-> FALSE,
          reason |-> "Mandatory training overdue; staff cannot take this shift",
          overdueCourses |-> status[1].overdueCourses]

----------------------------------------------------------------------------
(* Scoring (services/shiftAssignmentEngine.js)                             *)

\* String.prototype.toLowerCase on the strings of the model
toLowerCase(str) ==
    CASE str = "Alder" -> "alder"
      [] str = "Redwood" -> "redwood"
      [] str = "Day" -> "day"
      [] str = "Night" -> "night"
      [] str = "Any" -> "any"
      [] OTHER -> str

\* in minutes; the times are missing or well-formed "HH:MM"
estimateShiftHours(shift) ==
    IF shift.start_time = <<>> \/ shift.end_time = <<>> THEN 12 * 60
    ELSE LET startMinutes == shift.start_time[1] * 60 + shift.start_time[2]
             endMinutes == shift.end_time[1] * 60 + shift.end_time[2]
             diffMinutes == endMinutes - startMinutes
         IN  IF diffMinutes <= 0 THEN diffMinutes + 24 * 60 ELSE diffMinutes

\* map[key] || 0
lookupOrZero(map, key) == IF key \in DOMAIN map THEN map[key] ELSE 0

\* the 37.5 contracted hours used when the staff row has none (or 0), in minutes
DefaultContractMinutes == 2250

\* the hard filters stopping at the first one that excludes
hardFilters_FirstOnly(person, weeklyHours, weeklyDays) ==
    IF ~person.mandatory_training_complete
    THEN <<FALSE, <<"Excluded: mandatory training not complete.">> >>
    ELSE IF weeklyDays >= 6
    THEN <<FALSE, <<"Excluded: already at 6 days this week.">> >>
    ELSE IF weeklyHours >= 60 * 60
    THEN <<FALSE, <<"Excluded: already at or above 60 hours this week">> >>
    ELSE <<TRUE, <<>> >>

\* the first block: the hard filters; <<eligible, reasons>>
hardFilters(person, weeklyHours, weeklyDays) ==
    LET r1 == IF ~person.mandatory_training_complete
              THEN <<"Excluded: mandatory training not complete.">> ELSE <<>>
        r2 == IF weeklyDays >= 6
              THEN <<"Excluded: already at 6 days this week.">> ELSE <<>>
        r3 == IF weeklyHours >= 60 * 60
              THEN <<"Excluded: already at or above 60 hours this week">> ELSE <<>>
    IN  <<r1 \o r2 \o r3 = <<>>, r1 \o r2 \o r3>>

tierPoints(person) ==
    CASE person.staff_type = "permanent" -> <<40, <<"Staff type: Permanent +40">> >>
      [] person.staff_type = "bank" -> <<20, <<"Staff type: Bank +20">> >>
      [] person.staff_type = "agency" -> <<5, <<"Staff type: Agency +5">> >>
      [] OTHER -> <<0, <<"Staff type: Unknown +0">> >>

wardPoints(person, shift) ==
    IF person.ward # "" /\ shift.ward # ""
          /\ toLowerCase(person.ward) = toLowerCase(shift.ward)
    THEN <<30, <<"Home ward match +30">> >>
    ELSE IF person.ward # "" THEN <<5, <<"Different ward +5">> >>
    ELSE <<0, <<>> >>

\* the label scoring gives the shift: night from 18:00
shiftLabel(shift) ==
    IF shift.start_time # <<>> /\ shift.start_time[1] >= 18 THEN "night" ELSE "day"

preferencePoints(person, shift) ==
    LET pref == toLowerCase(IF person.preferred_shift = "" THEN "Day"
                            ELSE person.preferred_shift)
    IN  IF pref = "any" THEN <<10, <<"Flexible shift preference (Any) +10">> >>
        ELSE IF pref = shiftLabel(shift) THEN <<15, <<"Shift preference match +15">> >>
        ELSE <<0 - 5, <<"Shift preference mismatch -5">> >>

fairnessPoints_HalfInclusive(person, weeklyHours, totalIfAssigned, contractHours) ==
    IF person.staff_type = "permanent"
    THEN IF 2 * totalIfAssigned <= contractHours THEN <<35, <<"under 50% +35">> >>
         ELSE IF totalIfAssigned <= contractHours THEN <<20, <<"50-100% +20">> >>
         ELSE <<0 - 10, <<"over contract -10">> >>
    ELSE IF weeklyHours < 24 * 60 THEN <<10, <<"Low hours +10">> >>
         ELSE IF weeklyHours > 48 * 60 THEN <<0 - 10, <<"High hours -10">> >>
         ELSE <<0, <<"Moderate hours +0">> >>

\* utilisation = totalIfAssigned / contractHours, compared with 0.5 and 1.0
fairnessPoints(person, weeklyHours, totalIfAssigned, contractHours) ==
    IF person.staff_type = "permanent"
    THEN IF 2 * totalIfAssigned < contractHours
         THEN <<35, <<"Contract hours under 50% +35">> >>
         ELSE IF totalIfAssigned <= contractHours
         THEN <<20, <<"Contract hours between 50-100% +20">> >>
         ELSE <<0 - 10, <<"Already at/over contract hours -10">> >>
    ELSE IF weeklyHours < 24 * 60
         THEN <<10, <<"Low hours this week +10">> >>
         ELSE IF weeklyHours > 48 * 60
         THEN <<0 - 10, <<"High hours this week -10">> >>
         ELSE <<0, <<"Moderate hours this week +0">> >>

wellbeingPoints(person) ==
    IF person.wellbeing_score <= 0 THEN <<0, <<>> >>
    ELSE IF person.wellbeing_score < 30 THEN <<0 - 5, <<"Low wellbeing score -5">> >>
    ELSE IF person.wellbeing_score > 70 THEN <<5, <<"Good wellbeing score +5">> >>
    ELSE <<0, <<>> >>

\* scoring that notes the fairness reason before the preference reason
scoreStaffForShift_FairnessFirst(person, shift, hoursMap, daysMap) ==
    LET shiftHours == estimateShiftHours(shift)
        weeklyHours == lookupOrZero(hoursMap, person.id)
        weeklyDays == lookupOrZero(daysMap, person.id)
        totalIfAssigned == weeklyHours + shiftHours
        contractHours == IF person.contracted_hours_per_week = 0
                         THEN DefaultContractMinutes
                         ELSE person.contracted_hours_per_week
        hard == hardFilters(person, weeklyHours, weeklyDays)
        tier == tierPoints(person)
        ward == wardPoints(person, shift)
        pref == preferencePoints(person, shift)
        fair == fairnessPoints(person, weeklyHours, totalIfAssigned, contractHours)
        well == wellbeingPoints(person)
    IN  [score |-> tier[1] + ward[1] + pref[1] + fair[1] + well[1],
         reasons |-> hard[2] \o tier[2] \o ward[2] \o fair[2] \o pref[2] \o well[2],
         eligible |-> hard[1]]

scoreStaffForShift(person, shift, hoursMap, daysMap) ==
    LET shiftHours == estimateShiftHours(shift)
        weeklyHours == lookupOrZero(hoursMap, person.id)
        weeklyDays == lookupOrZero(daysMap, person.id)
        totalIfAssigned == weeklyHours + shiftHours
        contractHours == IF person.contracted_hours_per_week = 0
                         THEN DefaultContractMinutes
                         ELSE person.contracted_hours_per_week
        hard == hardFilters(person, weeklyHours, weeklyDays)
        tier == tierPoints(person)
        ward == wardPoints(person, shift)
        pref == preferencePoints(person, shift)
        fair == fairnessPoints(person, weeklyHours, totalIfAssigned, contractHours)
        well == wellbeingPoints(person)
    IN  [score |-> tier[1] + ward[1] + pref[1] + fair[1] + well[1],
         reasons |-> hard[2] \o tier[2] \o ward[2] \o pref[2] \o fair[2] \o well[2],
         eligible |-> hard[1]]

----------------------------------------------------------------------------
(* Calls of the pure functions on drawn arguments                          *)

MaxDate == 1

TheWard == "Alder"

Shift(d, st, et) ==
    [shift_date |-> d, start_time |-> st, end_time |-> et, ward |-> TheWard]

\* every option absent: the defaults apply
NoOptions ==
    [minRestHours |-> <<>>, maxDays |-> <<>>, softThresholdHours |-> <<>>,
     hardCapHours |-> <<>>, maxNights |-> <<>>, windowDays |-> <<>>]

NoCall == [fn |-> "none", val |-> 0]

HalfHours == {<<h, m>> : h \in 0..23, m \in {0, 30}}

\* minutes since midnight of a well-formed "HH:MM"
minutesOfDay(timeStr) == timeStr[1] * 60 + timeStr[2]

args == <<assignments, newShift, options, trainingStatus, allowManagerOverride,
          staff, weeklyHoursMap, weeklyDaysMap,
          shifts, staffTable, staffRows, shift_assignments, requests, response,
          whatsappVars>>

NoResponse == [status |-> 0, ok |-> FALSE, rule |-> "", staff_id |-> 0, shift_id |-> 0]

\* new Map()
NoSessions == [phone \in {} |-> 0]

\* no webhook request and no offer in this specification
WhatsappIdle ==
    /\ shift_offers = <<>>
    /\ attendance_logs = <<>>
    /\ registrationSessions = NoSessions
    /\ handlers = EmptyBag

\* no database and no request in this specification
SystemIdle ==
    /\ WhatsappIdle
    /\ shifts = <<>>
    /\ staffTable = {}
    /\ staffRows = <<>>
    /\ shift_assignments = EmptyBag
    /\ requests = EmptyBag
    /\ response = NoResponse

NoStaff ==
    [id |-> 1, staff_type |-> "permanent", ward |-> "", preferred_shift |-> "Day",
     wellbeing_score |-> 0, contracted_hours_per_week |-> 0,
     mandatory_training_complete |-> TRUE]

\* no scoring call in this specification
ScoringIdle ==
    /\ staff = NoStaff
    /\ weeklyHoursMap = <<>>
    /\ weeklyDaysMap = <<>>

\* no rule call in this specification
RulesIdle ==
    /\ assignments = <<>>
    /\ options = NoOptions
    /\ trainingStatus = <<>>
    /\ allowManagerOverride = FALSE

CallGetShiftRange ==
    /\ ret' = [fn |-> "getShiftRange", val |-> getShiftRange(newShift)]
    /\ UNCHANGED args

CallGetShiftDurationHours ==
    /\ ret' = [fn |-> "getShiftDurationHours", val |-> getShiftDurationHours(newShift)]
    /\ UNCHANGED args

CallIsNightShift ==
    /\ ret' = [fn |-> "isNightShift", val |-> isNightShift(newShift)]
    /\ UNCHANGED args

CallGetShiftType ==
    /\ ret' = [fn |-> "getShiftType", val |-> getShiftType(newShift)]
    /\ UNCHANGED args

CallEstimateShiftHours ==
    /\ ret' = [fn |-> "estimateShiftHours", val |-> estimateShiftHours(newShift)]
    /\ UNCHANGED args

CallCheckMandatoryTraining ==
    /\ ret' = [fn |-> "checkMandatoryTraining",
               val |-> checkMandatoryTraining(trainingStatus, allowManagerOverride)]
    /\ UNCHANGED args

\* one shift, any date and any times on the half hour, or missing
InitRange ==
    /\ assignments = <<>>
    /\ newShift \in {Shift(d, st, et) :
                        d \in {<<n>> : n \in 0..MaxDate} \cup {<<>>},
                        st \in HalfHours \cup {<<>>},
                        et \in HalfHours \cup {<<>>}}
    /\ options = NoOptions
    /\ trainingStatus = <<>>
    /\ allowManagerOverride = FALSE
    /\ ScoringIdle
    /\ SystemIdle
    /\ ret = NoCall

NextRange ==
    \/ CallGetShiftRange
    \/ CallGetShiftDurationHours
    \/ CallIsNightShift
    \/ CallGetShiftType
    \/ CallEstimateShiftHours

SpecRange == InitRange /\ [][NextRange]_vars

CallCheckDoubleBooking ==
    /\ ret' = [fn |-> "checkDoubleBooking", val |-> checkDoubleBooking(assignments, newShift)]
    /\ UNCHANGED args

CallCheckRestPeriod ==
    /\ ret' = [fn |-> "checkRestPeriod",
               val |-> checkRestPeriod(assignments, newShift, options.minRestHours)]
    /\ UNCHANGED args

MaxCommitments == 2
MaxDayO == 2

SeqsUpTo(S, n) == UNION {[1..k -> S] : k \in 0..n}

\* day 07:30-19:30, night 19:30-08:00, early 06:30-14:30, late 14:00-22:00,
\* and a record with the end time missing
TemplatesO ==
    {<< <<7, 30>>, <<19, 30>> >>, << <<19, 30>>, <<8, 0>> >>,
     << <<6, 30>>, <<14, 30>> >>, << <<14, 0>>, <<22, 0>> >>,
     << <<7, 30>>, <<>> >>}

ShiftsO ==
    {Shift(<<d>>, t[1], t[2]) : d \in 0..MaxDayO, t \in TemplatesO}
        \cup {Shift(<<>>, <<7, 30>>, <<19, 30>>)}

\* up to MaxCommitments commitments in any order, repeats included, and a
\* candidate on day 1 (or without a date)
InitOverlap ==
    /\ assignments \in SeqsUpTo(ShiftsO, MaxCommitments)
    /\ newShift \in {sh \in ShiftsO : sh.shift_date \in {<<>>, <<1>>}}
    /\ options \in {[NoOptions EXCEPT !.minRestHours = m] : m \in {<<>>, <<12>>}}
    /\ trainingStatus = <<>>
    /\ allowManagerOverride = FALSE
    /\ ScoringIdle
    /\ SystemIdle
    /\ ret = NoCall

NextOverlap ==
    \/ CallCheckDoubleBooking
    \/ CallCheckRestPeriod

SpecOverlap == InitOverlap /\ [][NextOverlap]_vars

CallCheckConsecutiveDaysLimit ==
    /\ ret' = [fn |-> "checkConsecutiveDaysLimit",
               val |-> checkConsecutiveDaysLimit(assignments, newShift, options.maxDays)]
    /\ UNCHANGED args

CallCheckWeeklyHoursLimit ==
    /\ ret' = [fn |-> "checkWeeklyHoursLimit",
               val |-> checkWeeklyHoursLimit(assignments, newShift,
                           [softThresholdHours |-> options.softThresholdHours,
                            hardCapHours |-> options.hardCapHours])]
    /\ UNCHANGED args

CallCheckNightShiftLimit ==
    /\ ret' = [fn |-> "checkNightShiftLimit",
               val |-> checkNightShiftLimit(assignments, newShift,
                                            options.maxNights, options.windowDays)]
    /\ UNCHANGED args

\* A roster gives each day 0..hi a pair <<start_time, end_time>> or <<>> (off);
\* its commitments, in the order of the days
RECURSIVE rosterSeq(_, _, _)
rosterSeq(roster, d, hi) ==
    IF d > hi THEN <<>>
    ELSE (IF roster[d] = <<>> THEN <<>> ELSE <<Shift(<<d>>, roster[d][1], roster[d][2])>>)
             \o rosterSeq(roster, d + 1, hi)

DayTimes == << <<7, 30>>, <<19, 30>> >>
NightTimes == << <<19, 30>>, <<8, 0>> >>
LongDayTimes == << <<7, 0>>, <<20, 0>> >>
ShortDayTimes == << <<8, 0>>, <<18, 0>> >>
SmallHoursTimes == << <<0, 30>>, <<6, 30>> >>
LateEveningTimes == << <<21, 0>>, <<23, 30>> >>

MaxStreakDay == 8

\* any set of worked days, all day shifts or all night shifts, once or twice
\* a day; a candidate on any day; the default limit of 6 days, or 2
InitStreak ==
    /\ \E D \in SUBSET (0..MaxStreakDay), t \in {DayTimes, NightTimes}, twice \in BOOLEAN :
          LET once == rosterSeq([d \in 0..MaxStreakDay |-> IF d \in D THEN t ELSE <<>>],
                                0, MaxStreakDay)
          IN  assignments = IF twice THEN once \o once ELSE once
    /\ newShift \in {Shift(<<d>>, DayTimes[1], DayTimes[2]) : d \in 0..MaxStreakDay}
    /\ options \in {[NoOptions EXCEPT !.maxDays = m] : m \in {<<>>, <<2>>}}
    /\ trainingStatus = <<>>
    /\ allowManagerOverride = FALSE
    /\ ScoringIdle
    /\ SystemIdle
    /\ ret = NoCall

NextStreak == CallCheckConsecutiveDaysLimit

SpecStreak == InitStreak /\ [][NextStreak]_vars

MaxHoursDay == 7

\* any set of worked days, all 12 h, all 13 h or all 10 h shifts; a candidate
\* on one of the last two days (or without a date); the default 48 h / 72 h
\* thresholds, or 40 h / 60 h
InitHours ==
    /\ \E D \in SUBSET (0..MaxHoursDay), t \in {DayTimes, LongDayTimes, ShortDayTimes} :
          assignments = rosterSeq([d \in 0..MaxHoursDay |-> IF d \in D THEN t ELSE <<>>],
                                  0, MaxHoursDay)
    /\ newShift \in {Shift(<<d>>, t[1], t[2]) :
                        d \in (MaxHoursDay - 1)..MaxHoursDay,
                        t \in {DayTimes, LongDayTimes, ShortDayTimes}}
                    \cup {Shift(<<>>, DayTimes[1], DayTimes[2])}
    /\ options \in {[NoOptions EXCEPT !.softThresholdHours = o[1], !.hardCapHours = o[2]] :
                        o \in {<< <<>>, <<>> >>, << <<40>>, <<60>> >>}}
    /\ trainingStatus = <<>>
    /\ allowManagerOverride = FALSE
    /\ ScoringIdle
    /\ SystemIdle
    /\ ret = NoCall

NextHours == CallCheckWeeklyHoursLimit

SpecHours == InitHours /\ [][NextHours]_vars

MaxNightDay == 5

\* each day off, a night, a day shift or a small-hours shift; a candidate on
\* one of the last two days; the defaults (4 nights in 14 days), or 2 in 3
InitNight ==
    /\ \E roster \in [0..MaxNightDay -> {<<>>, NightTimes, DayTimes, SmallHoursTimes}] :
          assignments = rosterSeq(roster, 0, MaxNightDay)
    /\ newShift \in {Shift(<<d>>, t[1], t[2]) :
                        d \in (MaxNightDay - 1)..MaxNightDay,
                        t \in {NightTimes, DayTimes, LateEveningTimes}}
    /\ options \in {[NoOptions EXCEPT !.maxNights = o[1], !.windowDays = o[2]] :
                        o \in {<< <<>>, <<>> >>, << <<2>>, <<3>> >>}}
    /\ trainingStatus = <<>>
    /\ allowManagerOverride = FALSE
    /\ ScoringIdle
    /\ SystemIdle
    /\ ret = NoCall

NextNight == CallCheckNightShiftLimit

SpecNight == InitNight /\ [][NextNight]_vars

CallScoreStaffForShift ==
    /\ ret' = [fn |-> "scoreStaffForShift",
               val |-> scoreStaffForShift(staff, newShift, weeklyHoursMap, weeklyDaysMap)]
    /\ UNCHANGED args

\* a staff row of every tier, home ward, preference, contract and wellbeing
\* band; 0 to 60 hours already assigned this week; a day, an evening, a night
\* shift and one without times, on the ward "Alder" or without a ward
InitScoring ==
    /\ RulesIdle
    /\ newShift \in {[Shift(<<0>>, t[1], t[2]) EXCEPT !.ward = w] :
                        t \in {DayTimes, NightTimes, << <<18, 0>>, <<22, 0>> >>,
                               << <<>>, <<>> >>},
                        w \in {TheWard, ""}}
    /\ staff \in [id : {1},
                  staff_type : {"permanent", "bank", "agency", "locum"},
                  ward : {"Alder", "alder", "Redwood", ""},
                  preferred_shift : {"Day", "Night", "Any"},
                  wellbeing_score : {0, 20, 30, 50, 70, 80},
                  contracted_hours_per_week : {0, 24 * 60, DefaultContractMinutes},
                  mandatory_training_complete : {TRUE}]
    /\ weeklyHoursMap \in {<<>>} \cup
           {[i \in {1} |-> h] : h \in {12 * 60, 24 * 60, 1530, 48 * 60, 60 * 60}}
    /\ weeklyDaysMap = <<>>
    /\ SystemIdle
    /\ ret = NoCall

NextScoring == CallScoreStaffForShift

SpecScoring == InitScoring /\ [][NextScoring]_vars

\* a trained or untrained staff row of every tier, home ward, preference and
\* wellbeing band; none, 24 or 60 hours and none, 5 or 6 days this week; a day
\* or a night shift on the ward "Alder"
InitReasons ==
    /\ RulesIdle
    /\ newShift \in {Shift(<<0>>, t[1], t[2]) : t \in {DayTimes, NightTimes}}
    /\ staff \in [id : {1},
                  staff_type : {"permanent", "bank", "agency", "locum"},
                  ward : {"Alder", "Redwood", ""},
                  preferred_shift : {"Day", "Night", "Any"},
                  wellbeing_score : {0, 20, 50, 80},
                  contracted_hours_per_week : {DefaultContractMinutes},
                  mandatory_training_complete : BOOLEAN]
    /\ weeklyHoursMap \in {<<>>} \cup {[i \in {1} |-> h] : h \in {24 * 60, 60 * 60}}
    /\ weeklyDaysMap \in {<<>>} \cup {[i \in {1} |-> n] : n \in {5, 6}}
    /\ SystemIdle
    /\ ret = NoCall

NextReasons == CallScoreStaffForShift

SpecReasons == InitReasons /\ [][NextReasons]_vars

Courses == {"fire safety", "safeguarding", "manual handling", "infection control"}

InitTraining ==
    /\ assignments = <<>>
    /\ newShift = Shift(<<0>>, <<7, 30>>, <<19, 30>>)
    /\ options = NoOptions
    /\ trainingStatus \in {<<>>} \cup
           {<<[isCompliant |-> c, overdueCourses |-> o]>> :
                c \in BOOLEAN, o \in SUBSET Courses}
    /\ allowManagerOverride \in BOOLEAN
    /\ ScoringIdle
    /\ SystemIdle
    /\ ret = NoCall

NextTraining == CallCheckMandatoryTraining

SpecTraining == InitTraining /\ [][NextTraining]_vars

----------------------------------------------------------------------------
(* The manager's assign operation (routes/authRoutes.js)                   *)

MaxInFlight == 2

\* the manager's organisation
TheOrg == 1

ShiftRow(id, day, times, required) ==
    [id |-> id, organisation_id |-> TheOrg, shift_date |-> <<day>>,
     start_time |-> times[1], end_time |-> times[2], ward |-> TheWard,
     status |-> "Open", number_required |-> required, number_filled |-> 0]

\* seven day shifts on seven days running
WeekOfDays == [i \in 1..7 |-> ShiftRow(i, i - 1, DayTimes, 1)]
\* five nights running
FiveNights == [i \in 1..5 |-> ShiftRow(i, i - 1, NightTimes, 1)]
\* six 13 h days running
SixLongDays == [i \in 1..6 |-> ShiftRow(i, i - 1, LongDayTimes, 2)]
\* a day and a night on day 0, then a day and a late shift on day 1
CloseShifts ==
    <<ShiftRow(1, 0, DayTimes, 1), ShiftRow(2, 0, NightTimes, 2),
      ShiftRow(3, 1, DayTimes, 1), ShiftRow(4, 1, << <<14, 0>>, <<22, 0>> >>, 1)>>

loadShiftForOrg(shiftId, organisationId) ==
    IF shiftId \in DOMAIN shifts /\ shifts[shiftId].organisation_id = organisationId
    THEN <<shifts[shiftId]>>
    ELSE <<>>

buildRuleShiftFromRow(row) ==
    [shift_date |-> row.shift_date, start_time |-> row.start_time,
     end_time |-> row.end_time, ward |-> row.ward]

RECURSIVE copies(_, _)
copies(x, n) == IF n = 0 THEN <<>> ELSE <<x>> \o copies(x, n - 1)

\* SELECT ... FROM shift_assignments sa JOIN shifts s ... WHERE sa.staff_id = $1
\* AND s.organisation_id = $2, mapped to plain shifts; the rows in the order
\* of the shift ids
RECURSIVE joinedFrom(_, _, _)
joinedFrom(id, staffId, organisationId) ==
    IF id > Len(shifts) THEN <<>>
    ELSE (IF shifts[id].organisation_id = organisationId
          THEN copies(buildRuleShiftFromRow(shifts[id]),
                      CopiesIn([shift_id |-> id, staff_id |-> staffId], shift_assignments))
          ELSE <<>>)
             \o joinedFrom(id + 1, staffId, organisationId)

existingAssignments(staffId, organisationId) == joinedFrom(1, staffId, organisationId)

\* the six verdicts of the route, each as the route calls its rule
ruleVerdicts(existing, shift, allowTrainingOverride) ==
    [double_booking |-> checkDoubleBooking(existing, shift).ok,
     rest_period |-> checkRestPeriod(existing, shift, <<11>>).ok,
     consecutive_days |-> checkConsecutiveDaysLimit(existing, shift, <<6>>).ok,
     weekly_hours |-> checkWeeklyHoursLimit(existing, shift,
                          [softThresholdHours |-> <<48>>, hardCapHours |-> <<72>>]).ok,
     night_shift_limit |-> checkNightShiftLimit(existing, shift, <<>>, <<>>).ok,
     mandatory_training |-> checkMandatoryTraining(<<>>, allowTrainingOverride).ok]

\* the chain of rules without the night-shift limit
firstViolation_SkipsNightLimit(existing, shift, allowTrainingOverride) ==
    LET v == ruleVerdicts(existing, shift, allowTrainingOverride) IN
    IF ~v.double_booking THEN "double_booking"
    ELSE IF ~v.rest_period THEN "rest_period"
    ELSE IF ~v.consecutive_days THEN "consecutive_days"
    ELSE IF ~v.weekly_hours THEN "weekly_hours"
    ELSE IF ~v.mandatory_training THEN "mandatory_training"
    ELSE ""

\* the chain of rules: the rule of the first verdict that is not ok, "" if none
firstViolation(existing, shift, allowTrainingOverride) ==
    LET v == ruleVerdicts(existing, shift, allowTrainingOverride) IN
    IF ~v.double_booking THEN "double_booking"
    ELSE IF ~v.rest_period THEN "rest_period"
    ELSE IF ~v.consecutive_days THEN "consecutive_days"
    ELSE IF ~v.weekly_hours THEN "weekly_hours"
    ELSE IF ~v.night_shift_limit THEN "night_shift_limit"
    ELSE IF ~v.mandatory_training THEN "mandatory_training"
    ELSE ""

\* UPDATE shifts SET number_filled = LEAST(number_required, number_filled + 1),
\* status = CASE WHEN (number_filled + 1) >= number_required THEN 'Filled' ...
fillOne(row) ==
    [row EXCEPT !.number_filled = IF row.number_filled + 1 < row.number_required
                                  THEN row.number_filled + 1
                                  ELSE row.number_required,
                !.status = IF row.number_filled + 1 >= row.number_required
                           THEN "Filled" ELSE row.status]

\* the assign requests handled at once: MaxInFlight on the roster of four
\* shifts, one at a time on the others
inFlightLimit == IF Len(shifts) = 4 THEN MaxInFlight ELSE 1

pureVars == <<assignments, newShift, options, trainingStatus, allowManagerOverride,
              staff, weeklyHoursMap, weeklyDaysMap, ret, staffRows>>

\* what the assign route leaves alone
assignIdle == <<pureVars, shift_offers, attendance_logs, registrationSessions, handlers>>

Respond(status, ok, rule, staffId, shiftId) ==
    response' = [status |-> status, ok |-> ok, rule |-> rule,
                 staff_id |-> staffId, shift_id |-> shiftId]

\* ensureManager: a user who is not a manager
AssignForbidden ==
    /\ \E role \in {"staff", ""} : Respond(403, FALSE, "", 0, 0)
    /\ UNCHANGED <<shifts, staffTable, shift_assignments, requests>>
    /\ UNCHANGED assignIdle

\* a shift id or staff id that is not a number
AssignBadRequest ==
    /\ \E shiftId \in {<<>>} \cup {<<i>> : i \in DOMAIN shifts},
          staffId \in {<<>>} \cup {<<i>> : i \in staffTable} :
          /\ shiftId = <<>> \/ staffId = <<>>
          /\ Respond(400, FALSE, "", 0, 0)
    /\ UNCHANGED <<shifts, staffTable, shift_assignments, requests>>
    /\ UNCHANGED assignIdle

\* the first part of the handler, up to the transaction: the shift and the
\* staff member's assignments are read and the rules applied
AssignReceive ==
    /\ BagCardinality(requests) < inFlightLimit
    /\ \E shiftId \in DOMAIN shifts \cup {0}, staffId \in staffTable \cup {0},
          allowTrainingOverride \in BOOLEAN :
          LET shiftRow == loadShiftForOrg(shiftId, TheOrg) IN
          IF shiftRow = <<>>
          THEN /\ Respond(404, FALSE, "", staffId, shiftId)
               /\ UNCHANGED requests
          ELSE \E existing \in {existingAssignments(staffId, TheOrg)} :
               \E rule \in {firstViolation(existing, buildRuleShiftFromRow(shiftRow[1]),
                                           allowTrainingOverride)} :
                   IF rule # ""
                   THEN /\ Respond(400, FALSE, rule, staffId, shiftId)
                        /\ UNCHANGED requests
                   ELSE /\ requests' = requests (+)
                               SetToBag({[shift_id |-> shiftId, staff_id |-> staffId]})
                        /\ UNCHANGED response
    /\ UNCHANGED <<shifts, staffTable, shift_assignments>>
    /\ UNCHANGED assignIdle

\* the transaction: INSERT INTO shift_assignments, UPDATE shifts, COMMIT; an
\* unknown staff id violates the foreign key and the transaction is rolled back
AssignCommit ==
    /\ \E r \in BagToSet(requests) :
          /\ requests' = requests (-) SetToBag({r})
          /\ IF r.staff_id \in staffTable
             THEN /\ shift_assignments' = shift_assignments (+) SetToBag({r})
                  /\ shifts' = [shifts EXCEPT ![r.shift_id] = fillOne(@)]
                  /\ Respond(200, TRUE, "", r.staff_id, r.shift_id)
             ELSE /\ UNCHANGED <<shift_assignments, shifts>>
                  /\ Respond(500, FALSE, "", r.staff_id, r.shift_id)
    /\ UNCHANGED staffTable
    /\ UNCHANGED assignIdle

InitAssign ==
    /\ RulesIdle
    /\ newShift = Shift(<<0>>, DayTimes[1], DayTimes[2])
    /\ ScoringIdle
    /\ ret = NoCall
    /\ shifts \in {WeekOfDays, FiveNights, SixLongDays, CloseShifts}
    /\ staffTable = {1}
    /\ staffRows = <<>>
    /\ shift_assignments = EmptyBag
    /\ requests = EmptyBag
    /\ response = NoResponse
    /\ WhatsappIdle

NextAssign ==
    \/ AssignForbidden
    \/ AssignBadRequest
    \/ AssignReceive
    \/ AssignCommit

SpecAssign == InitAssign /\ [][NextAssign]_vars

----------------------------------------------------------------------------
(* The staff recommendations for a shift (getBestStaffForShift and the     *)
(* route GET /shift/:shiftId/recommendations). Day 0 is a Monday.          *)

\* SELECT ... FROM shifts WHERE id = $1 AND organisation_id = $2 LIMIT 1
getShiftById(shiftId, organisationId) ==
    IF shiftId \in DOMAIN shifts /\ shifts[shiftId].organisation_id = organisationId
    THEN <<shifts[shiftId]>>
    ELSE <<>>

\* one row of the staff table as getStaffForOrganisation returns it
staffOfRow(row) ==
    [id |-> row.id,
     staff_type |-> IF row.staff_type = "" THEN "permanent" ELSE row.staff_type,
     ward |-> row.ward,
     preferred_shift |-> IF row.preferred_shift = "" THEN "Day" ELSE row.preferred_shift,
     wellbeing_score |-> row.wellbeing_score,
     contracted_hours_per_week |-> IF row.contracted_hours_per_week = <<>>
                                   THEN DefaultContractMinutes
                                   ELSE row.contracted_hours_per_week[1],
     mandatory_training_complete |-> IF row.mandatory_training_complete = <<>>
                                     THEN TRUE
                                     ELSE row.mandatory_training_complete[1]]

\* SELECT ... FROM staff WHERE organisation_id = $1, then the defaults
getStaffForOrganisation(organisationId) ==
    LET inOrg(row) == row.organisation_id = organisationId
        rows == SelectSeq(staffRows, inOrg)
    IN  [i \in 1..Len(rows) |-> staffOfRow(rows[i])]

\* the Monday-to-Sunday week of a date
getWeekWindowAround(date) ==
    LET start == date - (date % 7) IN [start |-> start, end |-> start + 6]

\* the shifts of shift_assignments JOIN shifts for one staff member and the
\* week: s.organisation_id = $1 AND s.shift_date BETWEEN $3 AND $4
weekShiftIds(organisationId, staffId, window) ==
    {i \in DOMAIN shifts :
        /\ shifts[i].organisation_id = organisationId
        /\ shifts[i].shift_date # <<>>
        /\ shifts[i].shift_date[1] >= window.start
        /\ shifts[i].shift_date[1] <= window.end
        /\ CopiesIn([shift_id |-> i, staff_id |-> staffId], shift_assignments) > 0}

\* SUM(EXTRACT(EPOCH FROM (s.end_time - s.start_time)) / 3600.0) over the joined
\* rows, in minutes: the difference of the two times of day (negative for a
\* shift that ends after midnight); a row with a time missing adds nothing
RECURSIVE sumHoursFrom(_, _, _)
sumHoursFrom(id, staffId, ids) ==
    IF id > Len(shifts) THEN 0
    ELSE (IF id \in ids /\ shifts[id].start_time # <<>> /\ shifts[id].end_time # <<>>
          THEN CopiesIn([shift_id |-> id, staff_id |-> staffId], shift_assignments)
                   * (minutesOfDay(shifts[id].end_time) - minutesOfDay(shifts[id].start_time))
          ELSE 0)
             + sumHoursFrom(id + 1, staffId, ids)

\* staff id -> minutes; a staff member without a row in the week has no entry
getWeeklyHoursForStaff(organisationId, staffIds, referenceDate) ==
    IF staffIds = {} THEN <<>>
    ELSE LET window == getWeekWindowAround(referenceDate)
         IN  [id \in {s \in staffIds : weekShiftIds(organisationId, s, window) # {}} |->
                 sumHoursFrom(1, id, weekShiftIds(organisationId, id, window))]

\* staff id -> COUNT(DISTINCT s.shift_date)
getWeeklyDaysWorkedForStaff(organisationId, staffIds, referenceDate) ==
    IF staffIds = {} THEN <<>>
    ELSE LET window == getWeekWindowAround(referenceDate)
         IN  [id \in {s \in staffIds : weekShiftIds(organisationId, s, window) # {}} |->
                 Cardinality({shifts[i].shift_date :
                                 i \in weekShiftIds(organisationId, id, window)})]

\* staffList.map(...): one entry per staff member, in the order of the list
rankStaff(staffList, shift, hoursMap, daysMap) ==
    [i \in 1..Len(staffList) |->
        LET scored == scoreStaffForShift(staffList[i], shift, hoursMap, daysMap)
        IN  [staff_id |-> staffList[i].id,
             staff_type |-> staffList[i].staff_type,
             weekly_hours |-> lookupOrZero(hoursMap, staffList[i].id),
             weekly_days |-> lookupOrZero(daysMap, staffList[i].id),
             score |-> scored.score,
             eligible |-> scored.eligible,
             reasons |-> scored.reasons]]

\* a sort that puts the later of two entries with equal scores first
sortByScoreDesc_TiesReversed(list) ==
    LET n == Len(list)
        before(j, i) == \/ list[j].score > list[i].score
                        \/ list[j].score = list[i].score /\ j > i
        place(i) == 1 + Cardinality({j \in 1..n : before(j, i)})
    IN  [p \in 1..n |-> list[CHOOSE i \in 1..n : place(i) = p]]

\* ranked.sort((a, b) => b.score - a.score): Array.prototype.sort is stable,
\* so an entry comes after those with a higher score and after the earlier
\* entries with the same score
sortByScoreDesc(list) ==
    LET n == Len(list)
        before(j, i) == \/ list[j].score > list[i].score
                        \/ list[j].score = list[i].score /\ j < i
        place(i) == 1 + Cardinality({j \in 1..n : before(j, i)})
    IN  [p \in 1..n |-> list[CHOOSE i \in 1..n : place(i) = p]]

\* options.limit && options.limit > 0 ? options.limit : 5
limitOf(opts) ==
    IF opts.limit # <<>> /\ opts.limit[1] # 0 /\ opts.limit[1] > 0 THEN opts.limit[1] ELSE 5

\* the first limit entries, the ineligible ones among them dropped afterwards
topEligible_SliceFirst(ranked, limit) ==
    LET isEligible(r) == r.eligible
        first == SubSeq(ranked, 1, IF limit < Len(ranked) THEN limit ELSE Len(ranked))
    IN  SelectSeq(first, isEligible)

\* ranked.filter((r) => r.eligible).slice(0, limit)
topEligible(ranked, limit) ==
    LET isEligible(r) == r.eligible
        kept == SelectSeq(ranked, isEligible)
    IN  SubSeq(kept, 1, IF limit < Len(kept) THEN limit ELSE Len(kept))

\* what a call that throws leaves: the Error's message
Thrown(message) == [threw |-> TRUE, error |-> message]

\* today: the date used when the shift row has no shift_date
getBestStaffForShift(shiftId, organisationId, opts, today) ==
    LET limit == limitOf(opts)
        shift == getShiftById(shiftId, organisationId)
        staffList == getStaffForOrganisation(organisationId)
        staffIds == {staffList[i].id : i \in 1..Len(staffList)}
        referenceDate == IF shift[1].shift_date # <<>> THEN shift[1].shift_date[1] ELSE today
    IN  IF shift = <<>> THEN Thrown("Shift not found for organisation")
        ELSE IF Len(staffList) = 0 THEN Thrown("No staff found for organisation")
        ELSE CHOOSE result \in
                 {[threw |-> FALSE,
                   shift |-> shift[1],
                   topRecommendations |-> topEligible(sorted, limit),
                   allRanked |-> sorted] :
                      sorted \in
                          {sortByScoreDesc(ranked) :
                              ranked \in
                                  {rankStaff(list, shift[1], hoursMap, daysMap) :
                                      list \in {staffList},
                                      hoursMap \in {getWeeklyHoursForStaff(
                                                       organisationId, staffIds, referenceDate)},
                                      daysMap \in {getWeeklyDaysWorkedForStaff(
                                                      organisationId, staffIds, referenceDate)}}}} :
                 TRUE

CallGetBestStaffForShift ==
    /\ \E shiftId \in DOMAIN shifts \cup {0},
          limit \in {<<>>, <<0>>, <<0 - 1>>, <<1>>, <<2>>},
          today \in {MaxDate} :
          \E result \in {getBestStaffForShift(shiftId, TheOrg, [limit |-> limit], today)} :
              ret' = [fn |-> "getBestStaffForShift", val |-> result,
                      shiftId |-> shiftId, limit |-> limit]
    /\ UNCHANGED args

\* GET /shift/:shiftId/recommendations
Recommendations ==
    /\ \E shiftIdRaw \in {<<>>, <<0>>} \cup {<<i>> : i \in DOMAIN shifts},
          today \in {MaxDate} :
          IF shiftIdRaw = <<>> \/ shiftIdRaw[1] <= 0
          THEN /\ Respond(400, FALSE, "", 0, 0)
               /\ UNCHANGED ret
          ELSE \E result \in {getBestStaffForShift(shiftIdRaw[1], TheOrg,
                                                   [limit |-> <<5>>], today)} :
                   /\ ret' = [fn |-> "recommendations", val |-> result,
                              shiftId |-> shiftIdRaw[1], limit |-> <<5>>]
                   /\ IF result.threw
                      THEN Respond(500, FALSE, "", 0, shiftIdRaw[1])
                      ELSE Respond(200, TRUE, "", 0, shiftIdRaw[1])
    /\ UNCHANGED <<assignments, newShift, options, trainingStatus, allowManagerOverride,
                   staff, weeklyHoursMap, weeklyDaysMap,
                   shifts, staffTable, staffRows, shift_assignments, requests,
                   whatsappVars>>

MaxPool == 2

StaffRow(id, organisationId, staffType, ward, preferred, wellbeing, contract, training) ==
    [id |-> id, organisation_id |-> organisationId, staff_type |-> staffType,
     ward |-> ward, preferred_shift |-> preferred, wellbeing_score |-> wellbeing,
     contracted_hours_per_week |-> contract, mandatory_training_complete |-> training]

\* a permanent nurse of the ward; a bank nurse of another ward with most columns
\* null; an agency nurse whose training is not complete; a nurse of another
\* organisation
PermanentRow(id) == StaffRow(id, TheOrg, "permanent", "Alder", "Day", 80,
                             <<DefaultContractMinutes>>, <<TRUE>>)
BankRow(id) == StaffRow(id, TheOrg, "bank", "Redwood", "", 0, <<>>, <<>>)
AgencyRow(id) == StaffRow(id, TheOrg, "agency", "", "Any", 20, <<>>, <<FALSE>>)
ElsewhereRow(id) == StaffRow(id, 2, "permanent", "Alder", "Day", 80,
                             <<DefaultContractMinutes>>, <<TRUE>>)

RowOf(kind, id) ==
    CASE kind = "permanent" -> PermanentRow(id)
      [] kind = "bank" -> BankRow(id)
      [] kind = "agency" -> AgencyRow(id)
      [] OTHER -> ElsewhereRow(id)

\* eight rows, seven of them eligible when nobody has worked yet
LargePool ==
    [i \in 1..8 |-> RowOf(<<"bank", "permanent", "permanent", "agency",
                            "permanent", "bank", "permanent", "bank">>[i], i)]

Pools ==
    {[i \in 1..Len(kinds) |-> RowOf(kinds[i], i)] :
        kinds \in SeqsUpTo({"permanent", "bank", "agency", "elsewhere"}, MaxPool)}
        \cup {LargePool}

\* eight day shifts on eight days running: a week and the next Monday
EightDays == [i \in 1..8 |-> ShiftRow(i, i - 1, DayTimes, 1)]

\* staff member 1 holds the first k shifts; staff member 2 holds shift 1 twice
\* when double is set
Held(k, double) ==
    SetToBag({[shift_id |-> i, staff_id |-> 1] : i \in 1..k})
        (+) (IF double
             THEN SetToBag({[shift_id |-> 1, staff_id |-> 2]})
                      (+) SetToBag({[shift_id |-> 1, staff_id |-> 2]})
             ELSE EmptyBag)

InitRanking ==
    /\ RulesIdle
    /\ newShift = Shift(<<0>>, DayTimes[1], DayTimes[2])
    /\ ScoringIdle
    /\ ret = NoCall
    /\ shifts = EightDays
    /\ staffRows \in Pools
    /\ staffTable = {staffRows[i].id : i \in 1..Len(staffRows)}
    /\ \E k \in {0, 1, 5, 6}, double \in BOOLEAN :
          /\ k > 0 => 1 \in staffTable
          /\ double => 2 \in staffTable
          /\ shift_assignments = Held(k, double)
    /\ requests = EmptyBag
    /\ response = NoResponse
    /\ WhatsappIdle

\* the engine called with any limit
NextRanking == CallGetBestStaffForShift

SpecRanking == InitRanking /\ [][NextRanking]_vars

\* the engine called by the route
NextRecommend == Recommendations

SpecRecommend == InitRanking /\ [][NextRecommend]_vars

\* the default thresholds, lower ones, and a lower hard cap alone
Policies ==
    {[NoOptions EXCEPT !.softThresholdHours = o[1], !.hardCapHours = o[2]] :
        o \in {<< <<>>, <<>> >>, << <<40>>, <<50>> >>, << <<>>, <<50>> >>}}

\* a call of the weekly hours rule with policy values of its own; options
\* holds the policy of the latest call
CallWithPolicy ==
    /\ \E policy \in Policies :
          /\ options' = policy
          /\ ret' = [fn |-> "checkWeeklyHoursLimit",
                     val |-> checkWeeklyHoursLimit(assignments, newShift,
                                 [softThresholdHours |-> policy.softThresholdHours,
                                  hardCapHours |-> policy.hardCapHours])]
    /\ UNCHANGED <<assignments, newShift, trainingStatus, allowManagerOverride,
                   staff, weeklyHoursMap, weeklyDaysMap,
                   shifts, staffTable, staffRows, shift_assignments, requests, response,
                   whatsappVars>>

\* the pools of two; a candidate with three or four 12 h days behind them and
\* a fifth asked for
InitCalls ==
    /\ assignments \in {rosterSeq([d \in 0..4 |-> IF d < k THEN DayTimes ELSE <<>>], 0, 4) :
                            k \in {3, 4}}
    /\ newShift = Shift(<<4>>, DayTimes[1], DayTimes[2])
    /\ options = NoOptions
    /\ trainingStatus = <<>>
    /\ allowManagerOverride = FALSE
    /\ ScoringIdle
    /\ ret = NoCall
    /\ shifts = EightDays
    /\ staffRows \in {pool \in Pools : Len(pool) = 2}
    /\ staffTable = {staffRows[i].id : i \in 1..Len(staffRows)}
    /\ \E k \in {0, 1, 5} : shift_assignments = Held(k, TRUE)
    /\ requests = EmptyBag
    /\ response = NoResponse
    /\ WhatsappIdle

\* rule calls and ranking calls in any order, each with its own arguments
NextCalls == CallGetBestStaffForShift \/ CallWithPolicy

SpecCalls == InitCalls /\ [][NextCalls]_vars

----------------------------------------------------------------------------
(* The WhatsApp webhook (routes/whatsappRoutes.js), the shift offers and   *)
(* the manager's cancel of an offer (routes/authRoutes.js). A handler runs *)
(* from one await to the next without interruption, and the handlers of    *)
(* different requests interleave at their awaits.                          *)

MaxHandlers == 2
MaxLogs == 3
MaxOffers == 2

\* the sender of the messages
ThePhone == "+447700900123"

\* a staff row as the webhook handlers use it: profile_complete stands for
\* full_name, role, ward, preferred_shift and contracted_hours_per_week all
\* being present
WhatsappRow(id, phone, complete) ==
    [id |-> id, organisation_id |-> TheOrg, phone_number |-> phone,
     profile_complete |-> complete]

\* String.prototype.toUpperCase on the texts of the model
toUpperCase(str) ==
    CASE str = "cancel" -> "CANCEL"
      [] str = "checkin" -> "CHECKIN"
      [] OTHER -> str

\* the commands that the webhook hands to a handler with a registration check
Commands == {"CHECKIN", "CHECKOUT", "MY SHIFTS", "INSIGHT TODAY", "ACCEPT", "DECLINE"}

\* SELECT ... FROM staff WHERE phone_number = $1 AND organisation_id = $2
\* LIMIT 1, and an INSERT when there is no such row (its id is the next of
\* the sequence; full_name, role and ward stay null). The result is the id of
\* the staff row and the table after the call.
getOrCreateStaffByPhone(phoneNumber, organisationId) ==
    LET found == {i \in 1..Len(staffRows) :
                     /\ staffRows[i].phone_number = phoneNumber
                     /\ staffRows[i].organisation_id = organisationId}
    IN  IF found # {}
        THEN [id |-> staffRows[CHOOSE i \in found : \A j \in found : i <= j].id,
              rows |-> staffRows]
        ELSE [id |-> Len(staffRows) + 1,
              rows |-> Append(staffRows,
                              WhatsappRow(Len(staffRows) + 1, phoneNumber, FALSE))]

\* false when there is no such row
staffNeedsRegistration(staffId, organisationId, rows) ==
    \E i \in 1..Len(rows) :
        /\ rows[i].id = staffId
        /\ rows[i].organisation_id = organisationId
        /\ ~rows[i].profile_complete

getRegistrationSession(phone) ==
    IF phone \in DOMAIN registrationSessions THEN <<registrationSessions[phone]>> ELSE <<>>

\* the Map after registrationSessions.set(phone, session)
setRegistrationSession(phone, session) ==
    [p \in DOMAIN registrationSessions \cup {phone} |->
        IF p = phone THEN session ELSE registrationSessions[p]]

\* the Map after registrationSessions.delete(phone)
clearRegistrationSession(phone) ==
    [p \in DOMAIN registrationSessions \ {phone} |-> registrationSessions[p]]

\* a handler suspended at an await: the command, the sender, the staff row it
\* found, where it stands, and what it has read so far (last: the action of
\* the latest attendance row, or the status of the offer, or the session's
\* original command; offer: the id of the offer, 0 for none; session: the
\* session object it holds, 0 for none)
Handler(op, from, staffId, pc, needsReg, skip) ==
    [op |-> op, from |-> from, staff_id |-> staffId, pc |-> pc, needsReg |-> needsReg,
     skipRegistrationCheck |-> skip, last |-> "", offer |-> 0, session |-> 0]

\* a session is an object: the Map and the handlers that have read it hold
\* the same one. A new object is told apart from every object still held.
newSessionObject ==
    LET held == {registrationSessions[p].object : p \in DOMAIN registrationSessions}
                    \cup {h.session : h \in BagToSet(handlers)}
    IN  CHOOSE n \in 1..(MaxHandlers + 2) : n \notin held /\ \A m \in 1..(n - 1) : m \in held

\* the rule arguments and the assign requests, which the webhook and the
\* cancel route leave alone
ruleArgs == <<assignments, newShift, options, trainingStatus, allowManagerOverride,
              staff, weeklyHoursMap, weeklyDaysMap>>

\* the last step was the arrival of a message, or the continuation of a handler
Arrived(text) == ret' = [fn |-> "webhook", val |-> text]
Continued(op) == ret' = [fn |-> "continue", val |-> op]

\* handleRegistrationReply up to its first await, for a phone with a session:
\* an empty reply changes nothing, CANCEL removes the session, a reply to
\* step 1, 2 or 3 moves the session on, and a reply to step 4 starts the
\* UPDATE of the staff row and leaves the session in place until it returns
handleRegistrationReply(phone, text) ==
    LET session == registrationSessions[phone]
        clean == text
    IN  IF clean = ""
        THEN UNCHANGED <<registrationSessions, handlers>>
        ELSE IF toUpperCase(clean) = "CANCEL"
        THEN /\ registrationSessions' = clearRegistrationSession(phone)
             /\ UNCHANGED handlers
        ELSE IF session.step \in 1..3
        THEN /\ registrationSessions' =
                    setRegistrationSession(phone, [session EXCEPT !.step = @ + 1])
             /\ UNCHANGED handlers
        ELSE IF session.step = 4
        THEN /\ handlers' = handlers (+) SetToBag({
                    [Handler("REGISTER", phone, session.staffId, "apply", FALSE, FALSE)
                        EXCEPT !.last = session.originalCommand,
                               !.session = session.object]})
             /\ UNCHANGED registrationSessions
        ELSE UNCHANGED <<registrationSessions, handlers>>

\* router.post('/webhook'), up to the first await of the handler it calls: a
\* phone with a session has its message consumed by the registration; else a
\* command starts its handler, which looks the staff member up and asks
\* whether a registration is needed
Webhook(text) ==
    /\ BagCardinality(handlers) < MaxHandlers
    /\ Arrived(text)
    /\ LET from == ThePhone
           upper == toUpperCase(text)
       IN  IF getRegistrationSession(from) # <<>>
           THEN /\ handleRegistrationReply(from, text)
                /\ UNCHANGED <<staffRows, staffTable>>
           ELSE IF upper \in Commands
           THEN \E found \in {getOrCreateStaffByPhone(from, TheOrg)} :
                   /\ staffRows' = found.rows
                   /\ staffTable' = staffTable \cup {found.id}
                   /\ handlers' = handlers (+) SetToBag({
                          Handler(upper, from, found.id, "checked",
                                  staffNeedsRegistration(found.id, TheOrg, found.rows),
                                  FALSE)})
                   /\ UNCHANGED registrationSessions
           ELSE UNCHANGED <<staffRows, staffTable, registrationSessions, handlers>>
    /\ UNCHANGED <<ruleArgs, shifts, shift_assignments, requests, response,
                   shift_offers, attendance_logs>>

\* beginRegistrationFlow, called by a handler that was told a registration is
\* needed
BeginRegistrationFlow ==
    /\ \E h \in BagToSet(handlers) :
          /\ h.pc = "checked"
          /\ h.needsReg
          /\ registrationSessions' =
                 setRegistrationSession(h.from, [step |-> 1, staffId |-> h.staff_id,
                                                 originalCommand |-> h.op,
                                                 object |-> newSessionObject])
          /\ handlers' = handlers (-) SetToBag({h})
          /\ Continued(h.op)
    /\ UNCHANGED <<ruleArgs, shifts, staffTable, staffRows, shift_assignments, requests,
                   response, shift_offers, attendance_logs>>

\* handleRegistrationReply at step 4, after applyRegistrationToStaff has
\* returned or thrown: the session is removed, and after a save the original
\* command runs again without the registration check
ApplyRegistration ==
    /\ \E h \in BagToSet(handlers), saved \in BOOLEAN :
          /\ h.pc = "apply"
          /\ staffRows' =
                 IF saved
                 THEN [i \in DOMAIN staffRows |->
                          IF staffRows[i].id = h.staff_id
                                /\ staffRows[i].organisation_id = TheOrg
                          THEN [staffRows[i] EXCEPT !.profile_complete = TRUE]
                          ELSE staffRows[i]]
                 ELSE staffRows
          /\ registrationSessions' = clearRegistrationSession(h.from)
          /\ handlers' =
                 IF saved /\ toUpperCase(h.last) \in Commands
                 THEN (handlers (-) SetToBag({h})) (+) SetToBag({
                          [Handler(toUpperCase(h.last), h.from,
                                   getOrCreateStaffByPhone(h.from, TheOrg).id,
                                   "checked", FALSE, TRUE)
                              EXCEPT !.session = h.session]})
                 ELSE handlers (-) SetToBag({h})
          /\ Continued("REGISTER")
    /\ UNCHANGED <<ruleArgs, shifts, staffTable, shift_assignments, requests, response,
                   shift_offers, attendance_logs>>

\* SELECT ... FROM attendance_logs WHERE staff_id = $1 ... ORDER BY occurred_at
\* DESC LIMIT 1: the action of the latest row, "" when there is none
lastAction(staffId) ==
    LET mine == {i \in DOMAIN attendance_logs : attendance_logs[i].staff_id = staffId}
    IN  IF mine = {} THEN ""
        ELSE attendance_logs[CHOOSE i \in mine : \A j \in mine : j <= i].action

\* handleCheckinCommand and handleCheckoutCommand: the SELECT of the latest row
ReadAttendance ==
    /\ \E h \in BagToSet(handlers) :
          /\ h.pc = "checked"
          /\ ~h.needsReg
          /\ h.op \in {"CHECKIN", "CHECKOUT"}
          /\ handlers' = (handlers (-) SetToBag({h})) (+) SetToBag({
                 [h EXCEPT !.pc = "read", !.last = lastAction(h.staff_id)]})
          /\ Continued(h.op)
    /\ UNCHANGED <<ruleArgs, shifts, staffTable, staffRows, shift_assignments, requests,
                   response, shift_offers, attendance_logs, registrationSessions>>

\* handleCheckinCommand after its SELECT: a reply only when the latest row is
\* a check-in, else the INSERT of a check-in
CheckinWrite ==
    /\ \E h \in BagToSet(handlers) :
          /\ h.pc = "read"
          /\ h.op = "CHECKIN"
          /\ IF h.last = "checkin"
             THEN UNCHANGED attendance_logs
             ELSE /\ Len(attendance_logs) < MaxLogs
                  /\ attendance_logs' = Append(attendance_logs,
                         [staff_id |-> h.staff_id, action |-> "checkin"])
          /\ handlers' = handlers (-) SetToBag({h})
          /\ Continued(h.op)
    /\ UNCHANGED <<ruleArgs, shifts, staffTable, staffRows, shift_assignments, requests,
                   response, shift_offers, registrationSessions>>

\* handleCheckoutCommand after its SELECT: a reply only unless the latest row
\* is a check-in, else the INSERT of a check-out
CheckoutWrite ==
    /\ \E h \in BagToSet(handlers) :
          /\ h.pc = "read"
          /\ h.op = "CHECKOUT"
          /\ IF h.last # "checkin"
             THEN UNCHANGED attendance_logs
             ELSE /\ Len(attendance_logs) < MaxLogs
                  /\ attendance_logs' = Append(attendance_logs,
                         [staff_id |-> h.staff_id, action |-> "checkout"])
          /\ handlers' = handlers (-) SetToBag({h})
          /\ Continued(h.op)
    /\ UNCHANGED <<ruleArgs, shifts, staffTable, staffRows, shift_assignments, requests,
                   response, shift_offers, registrationSessions>>

\* handleMyShiftsCommand and handleInsightTodayCommand past the registration
\* check: they read and reply
ReadOnlyCommand ==
    /\ \E h \in BagToSet(handlers) :
          /\ h.pc = "checked"
          /\ ~h.needsReg
          /\ h.op \in {"MY SHIFTS", "INSIGHT TODAY"}
          /\ handlers' = handlers (-) SetToBag({h})
          /\ Continued(h.op)
    /\ UNCHANGED <<ruleArgs, shifts, staffTable, staffRows, shift_assignments, requests,
                   response, shift_offers, attendance_logs, registrationSessions>>

\* SELECT * FROM shift_offers WHERE staff_id = $1 AND status = 'offered' ORDER
\* BY created_at DESC LIMIT 1: the id of the row, 0 when there is none
latestOffered(staffId) ==
    LET mine == {i \in DOMAIN shift_offers :
                    /\ shift_offers[i].staff_id = staffId
                    /\ shift_offers[i].status = "offered"}
    IN  IF mine = {} THEN 0 ELSE CHOOSE i \in mine : \A j \in mine : j <= i

\* handleAcceptCommand and handleDeclineCommand: the SELECT of the latest offer
ReadOffer ==
    /\ \E h \in BagToSet(handlers) :
          /\ h.pc = "checked"
          /\ ~h.needsReg
          /\ h.op \in {"ACCEPT", "DECLINE"}
          /\ handlers' = (handlers (-) SetToBag({h})) (+) SetToBag({
                 [h EXCEPT !.pc = "read", !.offer = latestOffered(h.staff_id)]})
          /\ Continued(h.op)
    /\ UNCHANGED <<ruleArgs, shifts, staffTable, staffRows, shift_assignments, requests,
                   response, shift_offers, attendance_logs, registrationSessions>>

\* handleAcceptCommand after its SELECT: a reply only when there is no offer,
\* else the transaction UPDATE shift_offers SET status = 'accepted' WHERE id,
\* INSERT INTO shift_assignments, UPDATE shifts SET number_filled =
\* number_filled + 1
AcceptTransaction ==
    /\ \E h \in BagToSet(handlers) :
          /\ h.pc = "read"
          /\ h.op = "ACCEPT"
          /\ IF h.offer = 0
             THEN UNCHANGED <<shift_offers, shift_assignments, shifts>>
             ELSE LET offer == shift_offers[h.offer] IN
                  /\ shift_offers' = [shift_offers EXCEPT ![h.offer].status = "accepted"]
                  /\ shift_assignments' = shift_assignments (+) SetToBag({
                         [shift_id |-> offer.shift_id, staff_id |-> h.staff_id]})
                  /\ shifts' = [shifts EXCEPT ![offer.shift_id].number_filled = @ + 1]
          /\ handlers' = handlers (-) SetToBag({h})
          /\ Continued(h.op)
    /\ UNCHANGED <<ruleArgs, staffTable, staffRows, requests, response,
                   attendance_logs, registrationSessions>>

\* handleDeclineCommand after its SELECT: a reply only when there is no
\* offer, else UPDATE shift_offers SET status = 'declined' WHERE id
DeclineUpdate ==
    /\ \E h \in BagToSet(handlers) :
          /\ h.pc = "read"
          /\ h.op = "DECLINE"
          /\ IF h.offer = 0
             THEN UNCHANGED shift_offers
             ELSE shift_offers' = [shift_offers EXCEPT ![h.offer].status = "declined"]
          /\ handlers' = handlers (-) SetToBag({h})
          /\ Continued(h.op)
    /\ UNCHANGED <<ruleArgs, shifts, staffTable, staffRows, shift_assignments, requests,
                   response, attendance_logs, registrationSessions>>

\* the staff of the organisation with a phone number, in the order of the table
RECURSIVE staffWithPhone(_, _)
staffWithPhone(i, organisationId) ==
    IF i > Len(staffRows) THEN <<>>
    ELSE (IF staffRows[i].organisation_id = organisationId
                /\ staffRows[i].phone_number # ""
          THEN <<staffRows[i]>> ELSE <<>>)
             \o staffWithPhone(i + 1, organisationId)

\* offerShiftToTopStaff with the default of three offers, for a pool of at
\* most three, so that every member of the pool is offered the shift (the
\* scores then decide only the order of the new rows): one row of status
\* 'offered' for each
OfferShiftToTopStaff ==
    /\ \E shiftId \in DOMAIN shifts :
          LET top == staffWithPhone(1, TheOrg) IN
          /\ shifts[shiftId].organisation_id = TheOrg
          /\ Len(top) <= 3
          /\ Len(shift_offers) + Len(top) <= MaxOffers
          /\ shift_offers' = shift_offers \o
                 [i \in 1..Len(top) |->
                     [staff_id |-> top[i].id, shift_id |-> shiftId, status |-> "offered"]]
    /\ UNCHANGED <<ruleArgs, ret, shifts, staffTable, staffRows, shift_assignments,
                   requests, response, attendance_logs, registrationSessions, handlers>>

\* POST /offers/:id/cancel up to the SELECT of the offer: 400 for an id that
\* is not a number, 404 for no such offer, 400 for a declined offer; else the
\* handler goes on with the status it has read
CancelRead ==
    /\ BagCardinality(handlers) < MaxHandlers
    /\ \E offerId \in {<<>>} \cup {<<i>> : i \in 0..Len(shift_offers)} :
          IF offerId = <<>>
          THEN /\ Respond(400, FALSE, "", 0, 0)
               /\ UNCHANGED handlers
          ELSE IF offerId[1] \notin DOMAIN shift_offers
          THEN /\ Respond(404, FALSE, "", 0, 0)
               /\ UNCHANGED handlers
          ELSE LET offer == shift_offers[offerId[1]] IN
               IF offer.status = "declined"
               THEN /\ Respond(400, FALSE, "", offer.staff_id, offer.shift_id)
                    /\ UNCHANGED handlers
               ELSE /\ handlers' = handlers (+) SetToBag({
                           [Handler("CANCEL OFFER", "", offer.staff_id, "read", FALSE, FALSE)
                               EXCEPT !.last = offer.status, !.offer = offerId[1]]})
                    /\ UNCHANGED response
    /\ UNCHANGED <<ruleArgs, ret, shifts, staffTable, staffRows, shift_assignments,
                   requests, shift_offers, attendance_logs, registrationSessions>>

\* UPDATE shifts SET number_filled = GREATEST(number_filled - $1, 0), status =
\* CASE WHEN number_filled - $1 < number_required AND status = 'Filled' THEN
\* 'Open' ELSE status END
unfill(row, n) ==
    [row EXCEPT !.number_filled = IF row.number_filled - n > 0
                                  THEN row.number_filled - n ELSE 0,
                !.status = IF row.number_filled - n < row.number_required
                                 /\ row.status = "Filled"
                           THEN "Open" ELSE row.status]

\* POST /offers/:id/cancel after its SELECT: for an offer read as accepted the
\* DELETE of the staff member's assignments to the shift and the UPDATE of
\* the shift; then UPDATE shift_offers SET status = 'declined', and COMMIT
CancelWrite ==
    /\ \E h \in BagToSet(handlers) :
          /\ h.pc = "read"
          /\ h.op = "CANCEL OFFER"
          /\ LET offer == shift_offers[h.offer]
                 key == [shift_id |-> offer.shift_id, staff_id |-> offer.staff_id]
                 unassignedAssignments == CopiesIn(key, shift_assignments)
             IN  /\ IF h.last = "accepted"
                    THEN /\ shift_assignments' =
                                [a \in DOMAIN shift_assignments \ {key} |->
                                    shift_assignments[a]]
                         /\ shifts' = [shifts EXCEPT ![offer.shift_id] =
                                          unfill(@, unassignedAssignments)]
                    ELSE UNCHANGED <<shift_assignments, shifts>>
                 /\ shift_offers' = [shift_offers EXCEPT ![h.offer].status = "declined"]
                 /\ Respond(200, TRUE, "", offer.staff_id, offer.shift_id)
          /\ handlers' = handlers (-) SetToBag({h})
    /\ UNCHANGED <<ruleArgs, ret, staffTable, staffRows, requests,
                   attendance_logs, registrationSessions>>

\* one phone, whose staff row is missing, incomplete or complete; messages
\* arrive while earlier ones are still being handled
InitWebhook ==
    /\ RulesIdle
    /\ newShift = Shift(<<0>>, DayTimes[1], DayTimes[2])
    /\ ScoringIdle
    /\ ret = NoCall
    /\ shifts = <<>>
    /\ staffRows \in {<<>>, <<WhatsappRow(1, ThePhone, FALSE)>>,
                      <<WhatsappRow(1, ThePhone, TRUE)>>}
    /\ staffTable = {staffRows[i].id : i \in 1..Len(staffRows)}
    /\ shift_assignments = EmptyBag
    /\ requests = EmptyBag
    /\ response = NoResponse
    /\ WhatsappIdle

\* the messages of the sender: nothing, cancel, a free text, and commands
WebhookTexts == {"", "cancel", "Jo Smith", "CHECKIN", "CHECKOUT", "MY SHIFTS", "MENU"}

NextWebhook ==
    \/ \E text \in WebhookTexts : Webhook(text)
    \/ BeginRegistrationFlow
    \/ ApplyRegistration
    \/ ReadAttendance
    \/ CheckinWrite
    \/ CheckoutWrite
    \/ ReadOnlyCommand

SpecWebhook == InitWebhook /\ [][NextWebhook]_vars

\* one day shift that needs one
OfferedShifts == <<ShiftRow(1, 0, DayTimes, 1)>>

\* one registered staff member, no offer yet; the manager offers, assigns
\* and cancels while the staff member answers
InitOffers ==
    /\ RulesIdle
    /\ newShift = Shift(<<0>>, DayTimes[1], DayTimes[2])
    /\ ScoringIdle
    /\ ret = NoCall
    /\ shifts = OfferedShifts
    /\ staffRows = <<WhatsappRow(1, ThePhone, TRUE)>>
    /\ staffTable = {1}
    /\ shift_assignments = EmptyBag
    /\ requests = EmptyBag
    /\ response = NoResponse
    /\ WhatsappIdle

NextOffers ==
    \/ OfferShiftToTopStaff
    \/ \E text \in {"ACCEPT", "DECLINE"} : Webhook(text)
    \/ ReadOffer
    \/ AcceptTransaction
    \/ DeclineUpdate
    \/ CancelRead
    \/ CancelWrite
    \/ AssignReceive
    \/ AssignCommit

SpecOffers == InitOffers /\ [][NextOffers]_vars

----------------------------------------------------------------------------
(* Claims                                                                  *)

\* C7: the mandatory-training gate returns ok=false exactly when the status
\* is known, not compliant and no manager override is supplied; a known
\* non-compliant status with the override gives ok=true with a warning
\* reason; an unknown or a compliant status gives ok=true.
C7_TrainingGate ==
    ret.fn = "checkMandatoryTraining" =>
        LET known == trainingStatus # <<>>
            compliant == known /\ trainingStatus[1].isCompliant
        IN  /\ ret.val.ok = ~(known /\ ~compliant /\ ~allowManagerOverride)
            /\ (known /\ ~compliant /\ allowManagerOverride) =>
                   (ret.val.ok /\ ret.val.reason # "")
            /\ (~known \/ compliant) => ret.val.ok

C7_Witness ==
    /\ ret.fn = "checkMandatoryTraining"
    /\ trainingStatus # <<>>
    /\ ~trainingStatus[1].isCompliant
    /\ ~allowManagerOverride
    /\ ~ret.val.ok

\* C8: for a shift with a valid date and well-formed start and end times the
\* normalized interval has end > start; the start lies on the shift date;
\* when the end time-of-day is <= the start time-of-day the end lies on the
\* next calendar day (exactly one day added), otherwise on the shift date.
C8_RangeNormalized ==
    (/\ ret.fn = "getShiftRange"
     /\ newShift.shift_date # <<>>
     /\ Len(newShift.start_time) = 2
     /\ Len(newShift.end_time) = 2) =>
        LET d == newShift.shift_date[1]
            s == minutesOfDay(newShift.start_time)
            e == minutesOfDay(newShift.end_time)
            r == ret.val
        IN  /\ r.start # <<>>
            /\ r.end # <<>>
            /\ r.end[1] > r.start[1]
            /\ r.start[1] = d * DayLen + s
            /\ (e <= s) => r.end[1] = (d + 1) * DayLen + e
            /\ (e > s) => r.end[1] = d * DayLen + e

C8_Witness ==
    /\ ret.fn = "getShiftRange"
    /\ newShift.shift_date = <<1>>
    /\ newShift.start_time = <<19, 30>>
    /\ newShift.end_time = <<8, 0>>
    /\ ret.val.end = <<2 * DayLen + 8 * 60>>

\* C9: the classifier labels a valid normalized interval night if start and
\* end fall on different calendar days or the start hour is < 6 or >= 20;
\* day if it is not night and the end hour is <= 22; unknown otherwise.
C9_Classifier ==
    (ret.fn = "getShiftType" /\ getShiftRange(newShift).start # <<>>) =>
        LET r == getShiftRange(newShift)
            startHour == (r.start[1] % DayLen) \div 60
            endHour == (r.end[1] % DayLen) \div 60
            night == \/ r.start[1] \div DayLen # r.end[1] \div DayLen
                     \/ startHour < 6
                     \/ startHour >= 20
        IN  ret.val = IF night THEN "night"
                      ELSE IF endHour <= 22 THEN "day"
                      ELSE "unknown"

\* a same-day shift starting at 07:30 and ending in hour 23 is unknown
C9_Witness ==
    /\ ret.fn = "getShiftType"
    /\ newShift.shift_date # <<>>
    /\ newShift.start_time = <<7, 30>>
    /\ newShift.end_time = <<23, 0>>
    /\ ret.val = "unknown"

\* C2: checkDoubleBooking returns ok=false exactly when some commitment's
\* normalized interval [s1,e1) overlaps the candidate's [s2,e2), that is
\* s1 < e2 and s2 < e1; commitments that only touch the candidate at an
\* endpoint do not overlap it.
C2_DoubleBooking ==
    ret.fn = "checkDoubleBooking" =>
        LET c == getShiftRange(newShift)
            overlaps(a) == LET r == getShiftRange(a) IN
                           /\ r.start # <<>>
                           /\ c.start # <<>>
                           /\ r.start[1] < c.end[1]
                           /\ c.start[1] < r.end[1]
        IN  ret.val.ok = ~(\E i \in 1..Len(assignments) : overlaps(assignments[i]))

\* a day shift ending 19:30 and a night candidate starting 19:30 the same day
C2_Witness ==
    /\ ret.fn = "checkDoubleBooking"
    /\ Len(assignments) = 1
    /\ assignments[1] = Shift(<<1>>, <<7, 30>>, <<19, 30>>)
    /\ newShift = Shift(<<1>>, <<19, 30>>, <<8, 0>>)
    /\ ret.val.ok

\* C3: checkRestPeriod returns ok=false iff some commitment ends strictly
\* before the candidate starts with a gap shorter than minRestHours (default
\* 11); a gap of exactly minRestHours passes and a commitment ending at or
\* after the candidate's start never fails the check.
C3_RestPeriod ==
    ret.fn = "checkRestPeriod" =>
        LET c == getShiftRange(newShift)
            minRest == IF options.minRestHours = <<>> THEN 11 ELSE options.minRestHours[1]
            tooClose(a) == LET r == getShiftRange(a) IN
                           /\ r.end # <<>>
                           /\ c.start # <<>>
                           /\ r.end[1] < c.start[1]
                           /\ c.start[1] - r.end[1] < minRest * 60
        IN  ret.val.ok = ~(\E i \in 1..Len(assignments) : tooClose(assignments[i]))

\* a commitment ending 19:30 on day 0, a candidate starting 06:30 on day 1:
\* the gap is exactly 11 hours and the check passes
C3_Witness ==
    /\ ret.fn = "checkRestPeriod"
    /\ options.minRestHours = <<>>
    /\ Len(assignments) = 1
    /\ assignments[1] = Shift(<<0>>, <<7, 30>>, <<19, 30>>)
    /\ newShift = Shift(<<1>>, <<6, 30>>, <<14, 30>>)
    /\ ret.val.ok

\* the minutes from start to end of a shift with well-formed times
minutesLong(shift) ==
    LET d == minutesOfDay(shift.end_time) - minutesOfDay(shift.start_time)
    IN  IF d <= 0 THEN d + 24 * 60 ELSE d

\* the instant a shift with a date and well-formed times starts
startsAt(shift) == shift.shift_date[1] * 24 * 60 + minutesOfDay(shift.start_time)

RECURSIVE sumOver(_, _)
sumOver(S, f) ==
    IF S = {} THEN 0
    ELSE LET x == CHOOSE y \in S : TRUE IN f[x] + sumOver(S \ {x}, f)

\* C4: the streak is the number of consecutive calendar dates, walking
\* backward from the candidate's date, that are among the commitments' start
\* dates plus the candidate's own date; ok=false iff streak > maxDays
\* (default 6).
C4_ConsecutiveDays ==
    ret.fn = "checkConsecutiveDaysLimit" =>
        LET cd == newShift.shift_date[1]
            maxDays == IF options.maxDays = <<>> THEN 6 ELSE options.maxDays[1]
            dates == {assignments[i].shift_date[1] : i \in 1..Len(assignments)} \cup {cd}
            streak == CHOOSE k \in 1..Cardinality(dates) :
                          /\ \A j \in 0..(k - 1) : (cd - j) \in dates
                          /\ (cd - k) \notin dates
        IN  /\ ret.val.streak = streak
            /\ ret.val.ok = ~(streak > maxDays)

\* six prior worked days ending the day before the candidate: streak 7, rejected
C4_Witness ==
    /\ ret.fn = "checkConsecutiveDaysLimit"
    /\ options.maxDays = <<>>
    /\ newShift.shift_date = <<7>>
    /\ {assignments[i].shift_date[1] : i \in 1..Len(assignments)} = 1..6
    /\ ret.val.streak = 7
    /\ ~ret.val.ok

\* C5: with total = hours of the commitments starting in the window (the six
\* days up to the candidate's start) + the candidate's hours: ok=false with
\* the hard cap breached iff total > hardCap (default 72); ok=true with a
\* legal warning iff softThreshold (default 48) < total <= hardCap; ok=true
\* without a warning iff total <= softThreshold.
C5_WeeklyHours ==
    (ret.fn = "checkWeeklyHoursLimit" /\ newShift.shift_date # <<>>) =>
        LET soft == IF options.softThresholdHours = <<>> THEN 48
                    ELSE options.softThresholdHours[1]
            hard == IF options.hardCapHours = <<>> THEN 72 ELSE options.hardCapHours[1]
            cs == startsAt(newShift)
            inWindow == {i \in 1..Len(assignments) :
                            /\ startsAt(assignments[i]) >= cs - 6 * 24 * 60
                            /\ startsAt(assignments[i]) <= cs}
            total == sumOver(inWindow, [i \in inWindow |-> minutesLong(assignments[i])])
                         + minutesLong(newShift)
        IN  /\ ret.val.totalHoursWithNew = total
            /\ ret.val.ok = ~(total > hard * 60)
            /\ ret.val.breachedHardCap = (total > hard * 60)
            /\ ret.val.legalWarning = (total > soft * 60 /\ total <= hard * 60)
            /\ (ret.val.ok /\ ~ret.val.legalWarning) = (total <= soft * 60 /\ total <= hard * 60)

\* 65 h of commitments (five 13 h shifts) and a 12 h candidate: 77 h, ineligible
C5_Witness ==
    /\ ret.fn = "checkWeeklyHoursLimit"
    /\ options = NoOptions
    /\ Len(assignments) = 5
    /\ newShift.start_time = <<7, 30>>
    /\ newShift.end_time = <<19, 30>>
    /\ ret.val.totalHoursWithNew = 77 * 60
    /\ ~ret.val.ok
    /\ ret.val.breachedHardCap

C10_ScoreIsSum ==
    (ret.fn = "scoreStaffForShift" /\ staff.contracted_hours_per_week > 0) =>
        LET weekly == IF staff.id \in DOMAIN weeklyHoursMap
                      THEN weeklyHoursMap[staff.id] ELSE 0
            shiftMinutes == IF newShift.start_time = <<>> THEN 12 * 60
                            ELSE minutesLong(newShift)
            label == IF newShift.start_time # <<>> /\ newShift.start_time[1] >= 18
                     THEN "night" ELSE "day"
            sameWard == {staff.ward, newShift.ward} \in
                            {{"Alder"}, {"alder"}, {"Alder", "alder"}, {"Redwood"}}
            tier == CASE staff.staff_type = "permanent" -> 40
                      [] staff.staff_type = "bank" -> 20
                      [] staff.staff_type = "agency" -> 5
                      [] OTHER -> 0
            ward == IF sameWard THEN 30 ELSE IF staff.ward # "" THEN 5 ELSE 0
            pref == CASE staff.preferred_shift = "Any" -> 10
                      [] staff.preferred_shift = "Day" /\ label = "day" -> 15
                      [] staff.preferred_shift = "Night" /\ label = "night" -> 15
                      [] OTHER -> 0 - 5
            \* utilisation u = (weekly + shift) / contracted: u < 1/2, u <= 1
            fair == IF staff.staff_type = "permanent"
                    THEN (IF 2 * (weekly + shiftMinutes) < staff.contracted_hours_per_week
                          THEN 35
                          ELSE IF weekly + shiftMinutes <= staff.contracted_hours_per_week
                          THEN 20 ELSE 0 - 10)
                    ELSE (IF weekly < 24 * 60 THEN 10
                          ELSE IF weekly > 48 * 60 THEN 0 - 10 ELSE 0)
            well == IF 0 < staff.wellbeing_score /\ staff.wellbeing_score < 30 THEN 0 - 5
                    ELSE IF staff.wellbeing_score > 70 THEN 5 ELSE 0
        IN  ret.val.score = tier + ward + pref + fair + well

\* permanent, home ward Alder, prefers day, 0 weekly hours, 37.5 contracted
\* hours, wellbeing 80, shift 07:30-19:30 on Alder: 125
C10_Witness ==
    /\ ret.fn = "scoreStaffForShift"
    /\ staff.staff_type = "permanent"
    /\ staff.ward = "Alder"
    /\ staff.preferred_shift = "Day"
    /\ staff.wellbeing_score = 80
    /\ staff.contracted_hours_per_week = 2250
    /\ weeklyHoursMap = <<>>
    /\ newShift = Shift(<<0>>, <<7, 30>>, <<19, 30>>)
    /\ ret.val.score = 125

\* C1: the assign operation inserts an assignment and raises the shift's
\* filled count only if all six predicates returned ok for the request; a
\* request for which some predicate returns ok=false is rejected naming a
\* violated rule and leaves the assignments and every shift's number_filled
\* and status unchanged.
C1_AssignGate ==
    [][/\ \A r \in BagToSet(requests') :
              CopiesIn(r, requests') > CopiesIn(r, requests) =>
                  /\ \E o \in BOOLEAN :
                        LET v == ruleVerdicts(existingAssignments(r.staff_id, TheOrg),
                                              buildRuleShiftFromRow(shifts[r.shift_id]), o)
                        IN  \A rule \in DOMAIN v : v[rule]
                  /\ UNCHANGED <<shift_assignments, shifts>>
       /\ (shift_assignments' # shift_assignments \/ shifts' # shifts) =>
              \E r \in BagToSet(requests) :
                  /\ requests' = requests (-) SetToBag({r})
                  /\ shift_assignments' = shift_assignments (+) SetToBag({r})
                  /\ \A id \in DOMAIN shifts : id # r.shift_id => shifts'[id] = shifts[id]
       /\ (response' # response /\ response'.status = 400 /\ response'.shift_id # 0) =>
              /\ \E o \in BOOLEAN :
                    LET v == ruleVerdicts(existingAssignments(response'.staff_id, TheOrg),
                                          buildRuleShiftFromRow(shifts[response'.shift_id]),
                                          o)
                    IN  response'.rule \in DOMAIN v /\ ~v[response'.rule]
              /\ UNCHANGED <<shift_assignments, shifts, requests>>
      ]_vars

\* the seventh day running was refused: six assignments stand
C1_Witness ==
    /\ response.status = 400
    /\ response.rule = "consecutive_days"
    /\ BagCardinality(shift_assignments) = 6
    /\ \A i \in DOMAIN shifts : shifts[i].number_filled <= 1

\* the rows of the staff table that belong to the manager's organisation: the
\* candidate pool, as positions of staffRows
poolPositions == {i \in 1..Len(staffRows) : staffRows[i].organisation_id = TheOrg}

\* the position in the staff table of the row with this id
positionOf(id) == CHOOSE i \in 1..Len(staffRows) : staffRows[i].id = id

\* C11: allRanked holds every candidate of the pool exactly once, eligible or
\* not, in non-increasing order of score, and two candidates with the same
\* score keep the order they had in the pool.
C11_AllRanked ==
    (ret.fn = "getBestStaffForShift" /\ ~ret.val.threw) =>
        LET all == ret.val.allRanked IN
        /\ Len(all) = Cardinality(poolPositions)
        /\ \A i \in poolPositions :
               Cardinality({p \in 1..Len(all) : all[p].staff_id = staffRows[i].id}) = 1
        /\ \A p, q \in 1..Len(all) :
               p < q => /\ all[p].score >= all[q].score
                        /\ all[p].score = all[q].score =>
                               positionOf(all[p].staff_id) < positionOf(all[q].staff_id)

\* the pool of eight: the list is reordered, its first two entries tie and keep
\* their order, and the candidate whose training is not complete is listed
C11_Witness ==
    /\ ret.fn = "getBestStaffForShift"
    /\ ~ret.val.threw
    /\ staffRows = LargePool
    /\ Len(ret.val.allRanked) = 8
    /\ ret.val.allRanked[1].staff_id = 2
    /\ ret.val.allRanked[2].staff_id = 3
    /\ ret.val.allRanked[1].score = ret.val.allRanked[2].score
    /\ \E p \in 1..8 : ~ret.val.allRanked[p].eligible

\* the positions of allRanked that hold an eligible candidate
eligiblePositions == {p \in 1..Len(ret.val.allRanked) : ret.val.allRanked[p].eligible}

\* C12: topRecommendations is allRanked filtered to the eligible candidates and
\* cut to the first limit entries, limit being 5 when none or a non-positive
\* one is given: at most limit entries, all eligible, in allRanked's order,
\* and no eligible candidate left out scores higher than one included.
C12_EligibleTop ==
    (ret.fn = "getBestStaffForShift" /\ ~ret.val.threw) =>
        LET all == ret.val.allRanked
            top == ret.val.topRecommendations
            limit == IF ret.limit = <<>> \/ ret.limit[1] <= 0 THEN 5 ELSE ret.limit[1]
            nth(k) == CHOOSE p \in eligiblePositions :
                          Cardinality({q \in eligiblePositions : q < p}) = k - 1
        IN  /\ Len(top) <= limit
            /\ Len(top) = IF Cardinality(eligiblePositions) < limit
                          THEN Cardinality(eligiblePositions) ELSE limit
            /\ \A k \in 1..Len(top) : top[k].eligible /\ top[k] = all[nth(k)]
            /\ \A p \in eligiblePositions, k \in 1..Len(top) :
                   (\A j \in 1..Len(top) : top[j] # all[p]) => all[p].score <= top[k].score

\* the pool of eight with no limit given: seven are eligible and five are returned
C12_Witness ==
    /\ ret.fn = "getBestStaffForShift"
    /\ ~ret.val.threw
    /\ ret.limit = <<>>
    /\ Cardinality(eligiblePositions) = 7
    /\ Len(ret.val.topRecommendations) = 5

\* C13: the recommendations for an existing shift of an organisation without
\* staff are an empty topRecommendations and an empty allRanked, with no
\* error thrown or reported.
C13_EmptyPool ==
    (/\ ret.fn = "recommendations"
     /\ response.status # 400
     /\ getShiftById(ret.shiftId, TheOrg) # <<>>
     /\ poolPositions = {}) =>
        /\ ~ret.val.threw
        /\ ret.val.topRecommendations = <<>>
        /\ ret.val.allRanked = <<>>
        /\ response.status = 200

\* the six verdicts of the rules for one entry of the ranking: the commitments
\* the staff member holds, the shift ranked for, the training flag of the row
sixVerdictsOk(entry) ==
    LET existing == existingAssignments(entry.staff_id, TheOrg)
        shift == buildRuleShiftFromRow(shifts[ret.shiftId])
        row == staffOfRow(staffRows[positionOf(entry.staff_id)])
    IN  /\ checkDoubleBooking(existing, shift).ok
        /\ checkRestPeriod(existing, shift, <<>>).ok
        /\ checkConsecutiveDaysLimit(existing, shift, <<>>).ok
        /\ checkWeeklyHoursLimit(existing, shift,
                                 [softThresholdHours |-> <<>>, hardCapHours |-> <<>>]).ok
        /\ checkNightShiftLimit(existing, shift, <<>>, <<>>).ok
        /\ checkMandatoryTraining(
               <<[isCompliant |-> row.mandatory_training_complete, overdueCourses |-> {}]>>,
               FALSE).ok

\* C15: a candidate's eligible flag in the ranking agrees with the conjunction
\* of the six rule verdicts (double-booking, rest, consecutive days, weekly
\* hours with the 72 h cap, night-shift limit, training) for the candidate's
\* commitments and the shift.
C15_EligibleIsSixRules ==
    (ret.fn = "getBestStaffForShift" /\ ~ret.val.threw) =>
        \A p \in 1..Len(ret.val.allRanked) :
            ret.val.allRanked[p].eligible = sixVerdictsOk(ret.val.allRanked[p])

\* the reasons of the hard filters
ExclusionReasons ==
    {"Excluded: mandatory training not complete.",
     "Excluded: already at 6 days this week.",
     "Excluded: already at or above 60 hours this week"}

ruleOfReason(reason) ==
    CASE reason \in ExclusionReasons -> "excluded"
      [] reason \in {"Staff type: Permanent +40", "Staff type: Bank +20",
                     "Staff type: Agency +5", "Staff type: Unknown +0"} -> "tier"
      [] reason \in {"Home ward match +30", "Different ward +5"} -> "ward"
      [] reason \in {"Flexible shift preference (Any) +10", "Shift preference match +15",
                     "Shift preference mismatch -5"} -> "preference"
      [] reason \in {"Contract hours under 50% +35", "Contract hours between 50-100% +20",
                     "Already at/over contract hours -10", "Low hours this week +10",
                     "High hours this week -10", "Moderate hours this week +0"} -> "fairness"
      [] reason \in {"Low wellbeing score -5", "Good wellbeing score +5"} -> "wellbeing"
      [] OTHER -> "?"

\* C20: after the exclusion reasons, the reasons list has one entry for each
\* scoring rule that applied, in the order tier, home ward, preference,
\* fairness, wellbeing: tier, preference and fairness always have their entry,
\* the home-ward rule has one when the candidate has a home ward and the
\* wellbeing rule when the wellbeing score is in (0, 30) or above 70.
C20_ReasonsInOrder ==
    ret.fn = "scoreStaffForShift" =>
        LET rules == [i \in 1..Len(ret.val.reasons) |-> ruleOfReason(ret.val.reasons[i])]
            isScoring(r) == r # "excluded"
            isExclusion(r) == r = "excluded"
            w == staff.wellbeing_score
        IN  /\ rules = SelectSeq(rules, isExclusion) \o SelectSeq(rules, isScoring)
            /\ SelectSeq(rules, isScoring) =
                   <<"tier">>
                   \o (IF staff.ward # "" THEN <<"ward">> ELSE <<>>)
                   \o <<"preference", "fairness">>
                   \o (IF (w > 0 /\ w < 30) \/ w > 70 THEN <<"wellbeing">> ELSE <<>>)

\* an untrained bank nurse of another ward with a low wellbeing score: the
\* exclusion reason, then the five scoring reasons in order
C20_Witness ==
    /\ ret.fn = "scoreStaffForShift"
    /\ staff.staff_type = "bank"
    /\ ~staff.mandatory_training_complete
    /\ ret.val.reasons = <<"Excluded: mandatory training not complete.",
                           "Staff type: Bank +20", "Different ward +5",
                           "Shift preference mismatch -5", "Low hours this week +10",
                           "Low wellbeing score -5">>

\* C16 as stated: for the candidate day shift 07:30-19:30 and the commitment
\* 19:30-08:00 of the night before, which ends on the morning the candidate
\* starts, checkRestPeriod returns ok=false and cites the gap and both shift
\* types (previous night, new day).
C16_RestAfterNight_AsStated ==
    (/\ ret.fn = "checkRestPeriod"
     /\ newShift = Shift(<<1>>, <<7, 30>>, <<19, 30>>)
     /\ assignments = <<Shift(<<0>>, <<19, 30>>, <<8, 0>>)>>) =>
        /\ ~ret.val.ok
        /\ ret.val.cites.prevType = "night"
        /\ ret.val.cites.newType = "day"

\* C16: for the candidate day shift 07:30-19:30 and the commitment 19:30-08:00
\* of the night before, checkRestPeriod returns ok=true (the commitment ends
\* half an hour after the candidate starts: no gap to measure) and it is
\* checkDoubleBooking that returns ok=false; checkRestPeriod returns ok=false,
\* citing the gap of 6.0 h, the minimum and the types night and day, for a
\* candidate 14:00-22:00 that starts after that night has ended.
C16_RestAfterNight ==
    /\ (/\ newShift = Shift(<<1>>, <<7, 30>>, <<19, 30>>)
        /\ assignments = <<Shift(<<0>>, <<19, 30>>, <<8, 0>>)>>) =>
           /\ ret.fn = "checkRestPeriod" => ret.val.ok
           /\ ret.fn = "checkDoubleBooking" => ~ret.val.ok
    /\ (/\ ret.fn = "checkRestPeriod"
        /\ newShift = Shift(<<1>>, <<14, 0>>, <<22, 0>>)
        /\ assignments = <<Shift(<<0>>, <<19, 30>>, <<8, 0>>)>>) =>
           /\ ~ret.val.ok
           /\ ret.val.cites.gap = toFixed1(6 * 60)
           /\ ret.val.cites.minRestHours = orDefault(options.minRestHours, 11)
           /\ ret.val.cites.prevType = "night"
           /\ ret.val.cites.newType = "day"

\* the rest check has run on the day candidate after the night and passed
C16_Witness ==
    /\ ret.fn = "checkRestPeriod"
    /\ newShift = Shift(<<1>>, <<7, 30>>, <<19, 30>>)
    /\ assignments = <<Shift(<<0>>, <<19, 30>>, <<8, 0>>)>>
    /\ options.minRestHours = <<>>
    /\ ret.val.ok

\* C17: the weekly total counts exactly the commitments that start on one of
\* the 7 calendar dates ending with the candidate's start date, whatever
\* their time of day, plus the candidate's own hours.
C17_CalendarWindow ==
    (ret.fn = "checkWeeklyHoursLimit" /\ newShift.shift_date # <<>>) =>
        LET cd == newShift.shift_date[1]
            onDates == {i \in 1..Len(assignments) :
                           /\ assignments[i].shift_date[1] >= cd - 6
                           /\ assignments[i].shift_date[1] <= cd}
        IN  ret.val.totalHoursWithNew =
                sumOver(onDates, [i \in onDates |-> minutesLong(assignments[i])])
                    + minutesLong(newShift)

\* C18: a shift with a date whose start or end time is missing is normalised
\* without failing and lasts the default 12 hours, for the rules
\* (getShiftDurationHours) and for scoring (estimateShiftHours).
C18_DefaultDuration ==
    (/\ newShift.shift_date # <<>>
     /\ newShift.start_time = <<>> \/ newShift.end_time = <<>>) =>
        /\ ret.fn = "getShiftRange" => ret.val.start # <<>> /\ ret.val.end # <<>>
        /\ ret.fn = "getShiftDurationHours" => ret.val = 12 * 60
        /\ ret.fn = "estimateShiftHours" => ret.val = 12 * 60

\* C19: on a shift with both times, a candidate preferring day (night) gets the
\* +15 of a preference match exactly when getShiftType labels the shift day
\* (night), and -5 otherwise.
C19_LabelIsClassifier ==
    (/\ ret.fn = "scoreStaffForShift"
     /\ staff.preferred_shift \in {"Day", "Night"}
     /\ newShift.start_time # <<>>
     /\ newShift.end_time # <<>>) =>
        LET given == {ret.val.reasons[i] : i \in 1..Len(ret.val.reasons)}
            agrees == getShiftType(newShift) = toLowerCase(staff.preferred_shift)
        IN  /\ ("Shift preference match +15" \in given) = agrees
            /\ ("Shift preference mismatch -5" \in given) = ~agrees

\* a shift record with a time of day missing
timesMissing(shift) == shift.start_time = <<>> \/ shift.end_time = <<>>

C28_ShortRestRefused ==
    (ret.fn = "checkRestPeriod" /\ options.minRestHours = <<>>) =>
        \A i \in 1..Len(assignments) :
            LET r == getShiftRange(assignments[i])
                n == getShiftRange(newShift)
            IN  (/\ r.start # <<>>
                 /\ n.start # <<>>
                 /\ n.start[1] >= r.end[1]
                 /\ n.start[1] - r.end[1] < 11 * 60) =>
                    (~ret.val.ok \/ ~checkDoubleBooking(assignments, newShift).ok)

\* the days on which the staff member holds an assignment
daysAssigned(staffId) ==
    {d \in 0..Len(shifts) :
        \E id \in DOMAIN shifts :
            /\ shifts[id].shift_date = <<d>>
            /\ BagIn([shift_id |-> id, staff_id |-> staffId], shift_assignments)}

\* C25: with the limit of six days, whatever the order of dates in which the
\* manager's assignments were made, no staff member is assigned to shifts on
\* seven or more calendar days running.
C25_NeverSevenRunning ==
    \A staffId \in staffTable :
        \A d \in 0..Len(shifts) :
            ~(\A k \in 0..6 : d + k \in daysAssigned(staffId))

\* C27: after any interleaving of assign requests no staff member holds two
\* assignments whose intervals overlap, and no staff member holds two
\* assignments to the same shift.
C27_NoOverlapNoDuplicate ==
    \A staffId \in staffTable :
        \A a, b \in DOMAIN shifts :
            LET ra == [shift_id |-> a, staff_id |-> staffId]
                rb == [shift_id |-> b, staff_id |-> staffId]
            IN  /\ CopiesIn(ra, shift_assignments) <= 1
                /\ (a # b /\ BagIn(ra, shift_assignments) /\ BagIn(rb, shift_assignments)) =>
                       ~shiftsOverlap(buildRuleShiftFromRow(shifts[a]),
                                      buildRuleShiftFromRow(shifts[b]))

\* C23: in every reachable state, after manager assignments, WhatsApp
\* acceptances and manager cancellations of offers, every shift has
\* 0 <= number_filled <= number_required.
C23_FilledWithinRequired ==
    \A id \in DOMAIN shifts :
        /\ 0 <= shifts[id].number_filled
        /\ shifts[id].number_filled <= shifts[id].number_required

\* the number of assignments of a shift in a table of assignments
assignmentsOf(table, shiftId) ==
    BagCardinality([a \in {x \in DOMAIN table : x.shift_id = shiftId} |-> table[a]])

\* C24: an accept or assign attempt on a shift whose status is Filled or
\* whose number_filled has reached number_required adds no assignment, and
\* the assignments of a shift never exceed its number_required.
C24_NoAcceptWhenFilled ==
    [][\A id \in DOMAIN shifts :
          /\ assignmentsOf(shift_assignments', id) > assignmentsOf(shift_assignments, id) =>
                 /\ shifts[id].status # "Filled"
                 /\ shifts[id].number_filled < shifts[id].number_required
          /\ assignmentsOf(shift_assignments', id) <= shifts'[id].number_required
      ]_vars

\* C26: a declined offer stays declined whatever comes later, also when an
\* ACCEPT and a cancel of the same offer interleave; the cancel of a declined
\* offer answers with an error and changes no offer, assignment or shift; and
\* an accepted offer that becomes declined has the staff member's
\* assignments to the shift deleted and number_filled lowered by their number.
C26_DeclinedIsTerminal ==
    [][/\ \A id \in DOMAIN shift_offers :
              shift_offers[id].status = "declined" =>
                  shift_offers'[id].status = "declined"
       /\ (response' # response /\ response'.status = 400 /\ response'.shift_id # 0
              /\ requests' = requests) =>
              UNCHANGED <<shift_offers, shift_assignments, shifts>>
       /\ \A id \in DOMAIN shift_offers :
              (shift_offers[id].status = "accepted"
                  /\ shift_offers'[id].status = "declined") =>
                  LET key == [shift_id |-> shift_offers[id].shift_id,
                              staff_id |-> shift_offers[id].staff_id]
                      deleted == CopiesIn(key, shift_assignments)
                      row == shifts[shift_offers[id].shift_id]
                  IN  /\ CopiesIn(key, shift_assignments') = 0
                      /\ shifts'[shift_offers[id].shift_id].number_filled
                             = row.number_filled - deleted
      ]_vars

\* the attendance rows of a staff member, oldest first
logOf(staffId) ==
    LET mine(row) == row.staff_id = staffId IN SelectSeq(attendance_logs, mine)

\* C30: the attendance log of each staff member alternates check-in and
\* check-out, starting with a check-in, also when two webhook requests of one
\* phone are handled concurrently.
C30_AttendanceAlternates ==
    \A staffId \in staffTable :
        \A i \in DOMAIN logOf(staffId) :
            logOf(staffId)[i].action = IF i % 2 = 1 THEN "checkin" ELSE "checkout"

\* C29: in the registration flow a session's step is one of 1, 2, 3, 4; each
\* non-empty reply other than CANCEL moves the step on by one; the session is
\* removed exactly on CANCEL or on the reply to step 4, saved or not; and a
\* message that arrives while the phone has a session is consumed by the
\* registration and starts no command handler; the only command started by
\* the registration is the re-run of the original command after the reply to
\* step 4, without a registration check, and a session never has two of them.
C29_RegistrationFlow ==
    [][LET phone == ThePhone
           had == phone \in DOMAIN registrationSessions
           has == phone \in DOMAIN registrationSessions'
           arrival == ret'.fn = "webhook"
           finished == ret'.fn = "continue" /\ ret'.val = "REGISTER"
           commandsStarted ==
               {h \in BagToSet(handlers') :
                   /\ CopiesIn(h, handlers') > CopiesIn(h, handlers)
                   /\ h.op \in Commands
                   /\ h.pc = "checked"}
       IN  /\ has => registrationSessions'[phone].step \in 1..4
           /\ (arrival /\ had /\ ret'.val # "" /\ toUpperCase(ret'.val) # "CANCEL"
                  /\ registrationSessions[phone].step < 4) =>
                  /\ has
                  /\ registrationSessions'[phone].step
                         = registrationSessions[phone].step + 1
           /\ (arrival /\ had /\ toUpperCase(ret'.val) = "CANCEL") => ~has
           /\ finished => ~has
           /\ (had /\ ~has) =>
                  (finished \/ (arrival /\ toUpperCase(ret'.val) = "CANCEL"))
           /\ (arrival /\ had) => commandsStarted = {}
           /\ \A h \in commandsStarted :
                  \/ arrival /\ ~had /\ ~h.skipRegistrationCheck
                  \/ /\ finished
                     /\ h.skipRegistrationCheck
                     /\ ~h.needsReg
                     /\ CopiesIn(h, handlers') = 1
                     /\ \A g \in BagToSet(handlers') :
                            (g.skipRegistrationCheck /\ g.session = h.session) => g = h
      ]_vars

\* the result of scoring one candidate of the pool for a shift with the hours
\* and days of that candidate alone
scoredAlone(id, shift) ==
    LET row == staffOfRow(staffRows[positionOf(id)])
        hoursMap == getWeeklyHoursForStaff(TheOrg, {id}, shift.shift_date[1])
        daysMap == getWeeklyDaysWorkedForStaff(TheOrg, {id}, shift.shift_date[1])
        scored == scoreStaffForShift(row, shift, hoursMap, daysMap)
    IN  [staff_id |-> id, staff_type |-> row.staff_type,
         weekly_hours |-> lookupOrZero(hoursMap, id),
         weekly_days |-> lookupOrZero(daysMap, id),
         score |-> scored.score, eligible |-> scored.eligible, reasons |-> scored.reasons]

====
